---- MODULE Spec2Model ----
(***************************************************************************)
(* Bilingual boolean retrieval engine: the index builder (bool_index), the *)
(* index reader and the query evaluator (bool_search).                     *)
(*                                                                         *)
(* Strings are sequences of byte values 0..255.  C++ positions are 0-based *)
(* and TLA+ sequences 1-based: an operator that takes a position takes the *)
(* 0-based one of the source and reads s[i + 1].                           *)
(***************************************************************************)
EXTENDS Integers, Sequences, FiniteSets, TLC

(***************************************************************************)
(* Bounds of the model.                                                    *)
(***************************************************************************)
\* Largest number of files on disk under the corpus root.
MaxFiles == 2
\* Largest value of --limit that is tried (0 means "no limit").
MaxLimit == 1
\* log2 of the number of hash buckets (the source uses 1u << 20).
TableBits == 1
\* log2 of the capacity of the per-document seen set (the source uses 1u << 15).
SeenBits == 1
\* Largest docid of the hand-made indexes and posting lists (SpecEval, SpecOps).
MaxDoc == 3
\* Largest number of lines on the standard input of bool_search (SpecMain).
MaxLines == 2
\* Largest number of pieces (characters or fragments of them) of a line that
\* is tokenized (SpecTok).
MaxPieces == 3
\* Largest length of the English tokens made of the letters of the model
\* (SpecStem).
MaxWordLen == 4

\* the elements of a sequence
Range(a) == { a[i] : i \in DOMAIN a }

RECURSIVE Pow2(_)
Pow2(n) == IF n = 0 THEN 1 ELSE 2 * Pow2(n - 1)

Min(a, b) == IF a < b THEN a ELSE b

(***************************************************************************)
(* std::string helpers.                                                    *)
(***************************************************************************)
\* s.substr(pos, n)
substr(s, pos, n) == SubSeq(s, pos + 1, Min(pos + n, Len(s)))

\* s.substr(pos)
substr_from(s, pos) == SubSeq(s, pos + 1, Len(s))

\* does sub occur in s at the 0-based position i
OccursAt(s, sub, i) ==
    /\ i + Len(sub) <= Len(s)
    /\ \A k \in 1..Len(sub) : s[i + k] = sub[k]

\* s.find(sub, from): the first position >= from, or -1 for npos
RECURSIVE find(_, _, _)
find(s, sub, from) ==
    IF from + Len(sub) > Len(s) THEN -1
    ELSE IF OccursAt(s, sub, from) THEN from
    ELSE find(s, sub, from + 1)

\* s.rfind(prefix, 0) == 0
starts_with(s, prefix) == OccursAt(s, prefix, 0)

\* operator<< of an unsigned integer: decimal ASCII digits
RECURSIVE to_dec(_)
to_dec(n) == IF n < 10 THEN <<48 + n>> ELSE Append(to_dec(n \div 10), 48 + (n % 10))

\* strtoul(s, nullptr, 10) on a field without sign or leading blanks: the value
\* of the longest prefix of digits, 0 if there is none
RECURSIVE strtoul_from(_, _, _)
strtoul_from(s, i, v) ==
    IF i >= Len(s) \/ s[i + 1] < 48 \/ s[i + 1] > 57 THEN v
    ELSE strtoul_from(s, i + 1, v * 10 + (s[i + 1] - 48))

strtoul(s) == strtoul_from(s, 0, 0)

\* strcmp on NUL-terminated strings: bytes compared as unsigned char, the
\* terminating 0 being smaller than every byte of a term
RECURSIVE strcmp_from(_, _, _)
strcmp_from(x, y, i) ==
    LET a == IF i < Len(x) THEN x[i + 1] ELSE 0
        b == IF i < Len(y) THEN y[i + 1] ELSE 0
    IN  IF a # b THEN (IF a < b THEN -1 ELSE 1)
        ELSE IF a = 0 THEN 0
        ELSE strcmp_from(x, y, i + 1)

strcmp(x, y) == strcmp_from(x, y, 0)

\* memcmp(p, q, k) on the first k bytes
RECURSIVE memcmp_from(_, _, _, _)
memcmp_from(p, q, k, i) ==
    IF i >= k THEN 0
    ELSE IF p[i + 1] # q[i + 1] THEN (IF p[i + 1] < q[i + 1] THEN -1 ELSE 1)
    ELSE memcmp_from(p, q, k, i + 1)

memcmp(p, q, k) == memcmp_from(p, q, k, 0)

(***************************************************************************)
(* Case folding and the byte-level tokenizer of the index builder.         *)
(***************************************************************************)
is_ascii_alpha(c) == (c >= 65 /\ c <= 90) \/ (c >= 97 /\ c <= 122)
is_ascii_digit(c) == c >= 48 /\ c <= 57
is_ascii_alnum(c) == is_ascii_alpha(c) \/ is_ascii_digit(c)

\* first loop of lowercase_inplace: A-Z -> a-z
RECURSIVE ascii_lower(_)
ascii_lower(s) ==
    IF s = <<>> THEN <<>>
    ELSE <<IF s[1] >= 65 /\ s[1] <= 90 THEN s[1] + 32 ELSE s[1]>> \o ascii_lower(Tail(s))

\* second loop of lowercase_inplace, from the 0-based position i on
RECURSIVE cyr_lower(_, _)
cyr_lower(s, i) ==
    IF i + 1 >= Len(s) THEN s
    ELSE LET b0 == s[i + 1]
             b1 == s[i + 2]
         IN  IF b0 = 208 /\ b1 >= 144 /\ b1 <= 159
                 THEN cyr_lower([s EXCEPT ![i + 2] = b1 + 32], i + 1)
             ELSE IF b0 = 208 /\ b1 >= 160 /\ b1 <= 175
                 THEN cyr_lower([s EXCEPT ![i + 1] = 209, ![i + 2] = b1 - 32], i + 1)
             ELSE IF b0 = 208 /\ b1 = 129
                 THEN cyr_lower([s EXCEPT ![i + 1] = 209, ![i + 2] = 145], i + 1)
             ELSE cyr_lower(s, i + 1)

lowercase_inplace(s) == cyr_lower(ascii_lower(s), 0)

is_cyr2_start(line, i) ==
    /\ i + 1 < Len(line)
    /\ line[i + 1] \in {208, 209}
    /\ line[i + 2] >= 128 /\ line[i + 2] <= 191

is_tok_start(line, i) ==
    /\ i < Len(line)
    /\ (is_ascii_alnum(line[i + 1]) \/ is_cyr2_start(line, i))

\* the flush lambda: the pending token, lowercased, is emitted unless empty
flush(cur, out) == IF cur # <<>> THEN Append(out, lowercase_inplace(cur)) ELSE out

RECURSIVE bool_index_tokenize_from(_, _, _, _)
bool_index_tokenize_from(line, i, cur, out) ==
    IF i >= Len(line) THEN flush(cur, out)
    ELSE LET c == line[i + 1] IN
         IF is_ascii_alnum(c)
             THEN bool_index_tokenize_from(line, i + 1, Append(cur, c), out)
         ELSE IF is_cyr2_start(line, i)
             THEN bool_index_tokenize_from(line, i + 2, cur \o <<line[i + 1], line[i + 2]>>, out)
         ELSE IF cur # <<>> /\ c \in {45, 43, 39} /\ is_tok_start(line, i + 1)
             THEN bool_index_tokenize_from(line, i + 1, Append(cur, c), out)
         ELSE IF /\ cur # <<>>
                 /\ c = 46
                 /\ is_ascii_digit(cur[Len(cur)])
                 /\ i + 1 < Len(line)
                 /\ is_ascii_digit(line[i + 2])
             THEN bool_index_tokenize_from(line, i + 1, Append(cur, 46), out)
         ELSE bool_index_tokenize_from(line, i + 1, <<>>, flush(cur, out))

\* tokenize_line of bool_index: the tokens of one line
bool_index_tokenize_line(line) == bool_index_tokenize_from(line, 0, <<>>, <<>>)

\* the tokens of all lines of a body, in reading order
RECURSIVE tokenize_lines(_)
tokenize_lines(lines) ==
    IF lines = <<>> THEN <<>>
    ELSE bool_index_tokenize_line(Head(lines)) \o tokenize_lines(Tail(lines))

(***************************************************************************)
(* The codec and the codepoint-level tokenizer (tokenize).                 *)
(***************************************************************************)
is_ascii_upper(cp) == cp >= 65 /\ cp <= 90
is_cyr_upper(cp) == (cp >= 1040 /\ cp <= 1071) \/ cp = 1025
is_cyr_lower(cp) == (cp >= 1072 /\ cp <= 1103) \/ cp = 1105
is_greek(cp) == cp >= 880 /\ cp <= 1023

\* to_lower_cp that folds nothing
to_lower_cp_Keep(cp) == cp

to_lower_cp(cp) ==
    IF is_ascii_upper(cp) THEN cp + 32
    ELSE IF cp >= 1040 /\ cp <= 1071 THEN cp + 32
    ELSE IF cp = 1025 THEN 1105
    ELSE cp

is_letter(cp) ==
    \/ (cp >= 97 /\ cp <= 122) \/ (cp >= 65 /\ cp <= 90)
    \/ is_cyr_lower(cp) \/ is_cyr_upper(cp)
    \/ is_greek(cp)
    \/ cp = 181

is_alnum(cp) == is_letter(cp) \/ is_ascii_digit(cp)

is_hyphen(cp) == cp \in {45, 8208, 8209, 8210, 8722}
is_apostrophe(cp) == cp \in {39, 8217}

\* (c & 0xC0) == 0x80
is_cont(c) == c \div 64 = 2

\* decode_utf8_next at the position i: ok = FALSE at the end of s, else the
\* codepoint cp and the position i after it; 65533 is U+FFFD
decode_utf8_next(s, i) ==
    LET Bad == [ok |-> TRUE, cp |-> 65533, i |-> i + 1]
    IN  IF i >= Len(s) THEN [ok |-> FALSE, cp |-> 0, i |-> i]
        ELSE LET c0 == s[i + 1] IN
             IF c0 < 128 THEN [ok |-> TRUE, cp |-> c0, i |-> i + 1]
             ELSE IF c0 \div 32 = 6
                 THEN IF i + 1 >= Len(s) THEN Bad
                      ELSE IF ~is_cont(s[i + 2]) THEN Bad
                      ELSE [ok |-> TRUE, cp |-> (c0 % 32) * 64 + (s[i + 2] % 64), i |-> i + 2]
             ELSE IF c0 \div 16 = 14
                 THEN IF i + 2 >= Len(s) THEN Bad
                      ELSE IF ~is_cont(s[i + 2]) \/ ~is_cont(s[i + 3]) THEN Bad
                      ELSE [ok |-> TRUE,
                            cp |-> (c0 % 16) * 4096 + (s[i + 2] % 64) * 64 + (s[i + 3] % 64),
                            i  |-> i + 3]
             ELSE IF c0 \div 8 = 30
                 THEN IF i + 3 >= Len(s) THEN Bad
                      ELSE IF ~is_cont(s[i + 2]) \/ ~is_cont(s[i + 3]) \/ ~is_cont(s[i + 4])
                          THEN Bad
                      ELSE [ok |-> TRUE,
                            cp |-> (c0 % 8) * 262144 + (s[i + 2] % 64) * 4096
                                       + (s[i + 3] % 64) * 64 + (s[i + 4] % 64),
                            i  |-> i + 4]
             ELSE Bad

\* append_utf8 that leaves the marker bits off the last byte of two
append_utf8_NoMarker(out, cp) ==
    IF cp <= 127 THEN Append(out, cp)
    ELSE IF cp <= 2047 THEN out \o <<192 + ((cp \div 64) % 32), cp % 64>>
    ELSE IF cp <= 65535
        THEN out \o <<224 + ((cp \div 4096) % 16), 128 + ((cp \div 64) % 64), 128 + (cp % 64)>>
    ELSE out \o <<240 + ((cp \div 262144) % 8), 128 + ((cp \div 4096) % 64),
                  128 + ((cp \div 64) % 64), 128 + (cp % 64)>>

append_utf8(out, cp) ==
    IF cp <= 127 THEN Append(out, cp)
    ELSE IF cp <= 2047 THEN out \o <<192 + ((cp \div 64) % 32), 128 + (cp % 64)>>
    ELSE IF cp <= 65535
        THEN out \o <<224 + ((cp \div 4096) % 16), 128 + ((cp \div 64) % 64), 128 + (cp % 64)>>
    ELSE out \o <<240 + ((cp \div 262144) % 8), 128 + ((cp \div 4096) % 64),
                  128 + ((cp \div 64) % 64), 128 + (cp % 64)>>

\* The conditions under which tokenize_line appends a character that is not
\* alphanumeric: tok is the pending token, nx what decode_utf8_next gave for
\* the character after it.
keep_hyphen(cp, tok, nx) == is_hyphen(cp) /\ tok # <<>> /\ nx.ok /\ is_alnum(nx.cp)

keep_plus(cp, tok, nx) == cp = 43 /\ tok # <<>> /\ nx.ok /\ is_alnum(nx.cp)

keep_dot(cp, tok, nx) ==
    /\ cp = 46
    /\ tok # <<>> /\ tok[Len(tok)] >= 48 /\ tok[Len(tok)] <= 57
    /\ nx.ok /\ is_ascii_digit(nx.cp)

keep_apostrophe(cp, tok, nx) == is_apostrophe(cp) /\ tok # <<>> /\ nx.ok /\ is_letter(nx.cp)

\* the flush lambda: the pending token is emitted unless it is empty
emit(tok, out) == IF tok # <<>> THEN Append(out, tok) ELSE out

RECURSIVE tokenize_from(_, _, _, _)
tokenize_from(s, i, tok, out) ==
    IF i >= Len(s) THEN emit(tok, out)
    ELSE LET d  == decode_utf8_next(s, i)
             nx == decode_utf8_next(s, d.i)
         IN  IF is_alnum(d.cp)
                 THEN tokenize_from(s, d.i, append_utf8(tok, to_lower_cp(d.cp)), out)
             ELSE IF \/ keep_hyphen(d.cp, tok, nx)
                     \/ keep_plus(d.cp, tok, nx)
                     \/ keep_dot(d.cp, tok, nx)
                     \/ keep_apostrophe(d.cp, tok, nx)
                 THEN tokenize_from(s, d.i, append_utf8(tok, d.cp), out)
             ELSE tokenize_from(s, d.i, <<>>, emit(tok, out))

\* tokenize_line of tokenize: the tokens counted and printed for one line
tokenize_line(s) == tokenize_from(s, 0, <<>>, <<>>)

\* tokens joined by single spaces
RECURSIVE join_tokens(_)
join_tokens(ts) ==
    IF ts = <<>> THEN <<>>
    ELSE IF Len(ts) = 1 THEN ts[1]
    ELSE ts[1] \o <<32>> \o join_tokens(Tail(ts))

(***************************************************************************)
(* The stemmers (stem).  A token is the bytes before the terminating NUL.  *)
(***************************************************************************)
\* sizeof(tmp): the buffer the English stemmer copies a token into
TmpSize == 512

ends_with_bytes(str, suf) ==
    /\ Len(suf) <= Len(str)
    /\ \A k \in 1..Len(suf) : str[Len(str) - Len(suf) + k] = suf[k]

cut_suffix(str, suf_len) ==
    IF suf_len > Len(str) THEN str ELSE SubSeq(str, 1, Len(str) - suf_len)

RECURSIVE has_cyrillic_utf8(_)
has_cyrillic_utf8(str) ==
    IF str = <<>> THEN FALSE
    ELSE IF Head(str) \in {208, 209} THEN TRUE
    ELSE has_cyrillic_utf8(Tail(str))

\* a e i o u
is_vowel_en(c) == c \in {97, 101, 105, 111, 117}

\* has_vowel_en from the 0-based position i on: a vowel, or a y that is not
\* the first character
RECURSIVE has_vowel_from(_, _)
has_vowel_from(str, i) ==
    IF i >= Len(str) THEN FALSE
    ELSE IF is_vowel_en(str[i + 1]) THEN TRUE
    ELSE IF str[i + 1] = 121 /\ i > 0 THEN TRUE
    ELSE has_vowel_from(str, i + 1)

has_vowel_en(str) == has_vowel_from(str, 0)

is_consonant_en(c) ==
    IF c < 97 \/ c > 122 THEN FALSE ELSE ~is_vowel_en(c) /\ c # 121

ends_with_double_consonant_en(str) ==
    LET n == Len(str)
    IN  IF n < 2 THEN FALSE
        ELSE IF str[n] # str[n - 1] THEN FALSE
        ELSE is_consonant_en(str[n])

\* What a step of stem_en leaves: the token, and ret = TRUE when the step
\* returned from stem_en (the token does not fit the buffer).
Stepped(str) == [tok |-> str, ret |-> FALSE]
Returned(str) == [tok |-> str, ret |-> TRUE]

\* sses -> ss, ies -> i, ss kept, s dropped after a prefix with a vowel
en_plural(tok) ==
    LET n == Len(tok)
    IN  IF ends_with_bytes(tok, <<115, 115, 101, 115>>) THEN Stepped(cut_suffix(tok, 2))
        ELSE IF ends_with_bytes(tok, <<105, 101, 115>>) THEN Stepped(cut_suffix(tok, 2))
        ELSE IF ends_with_bytes(tok, <<115, 115>>) THEN Stepped(tok)
        ELSE IF ends_with_bytes(tok, <<115>>) /\ n > 3
            THEN IF n >= TmpSize THEN Returned(tok)
                 ELSE IF has_vowel_en(SubSeq(tok, 1, n - 1)) THEN Stepped(cut_suffix(tok, 1))
                 ELSE Stepped(tok)
        ELSE Stepped(tok)

\* en_verb that takes the d off every eed
en_verb_AnyEed(tok) ==
    IF ends_with_bytes(tok, <<101, 101, 100>>)
        THEN Stepped(SubSeq(tok, 1, Len(tok) - 1))
    ELSE IF ends_with_bytes(tok, <<101, 100>>)
        THEN IF Len(tok) >= TmpSize THEN Returned(tok)
             ELSE IF has_vowel_en(cut_suffix(tok, 2)) THEN Stepped(cut_suffix(tok, 2))
             ELSE Stepped(tok)
    ELSE IF ends_with_bytes(tok, <<105, 110, 103>>)
        THEN IF Len(tok) >= TmpSize THEN Returned(tok)
             ELSE IF has_vowel_en(cut_suffix(tok, 3)) THEN Stepped(cut_suffix(tok, 3))
             ELSE Stepped(tok)
    ELSE Stepped(tok)

\* eed -> ee in a token of more than 4, ed and ing dropped after a prefix
\* with a vowel
en_verb(tok) ==
    IF ends_with_bytes(tok, <<101, 101, 100>>)
        THEN IF Len(tok) > 4 THEN Stepped(SubSeq(tok, 1, Len(tok) - 1)) ELSE Stepped(tok)
    ELSE IF ends_with_bytes(tok, <<101, 100>>)
        THEN IF Len(tok) >= TmpSize THEN Returned(tok)
             ELSE IF has_vowel_en(cut_suffix(tok, 2)) THEN Stepped(cut_suffix(tok, 2))
             ELSE Stepped(tok)
    ELSE IF ends_with_bytes(tok, <<105, 110, 103>>)
        THEN IF Len(tok) >= TmpSize THEN Returned(tok)
             ELSE IF has_vowel_en(cut_suffix(tok, 3)) THEN Stepped(cut_suffix(tok, 3))
             ELSE Stepped(tok)
    ELSE Stepped(tok)

\* at -> ate, bl -> ble, iz -> ize
en_tail(tok) ==
    LET n == Len(tok)
    IN  IF n >= 2 /\ SubSeq(tok, n - 1, n) \in {<<97, 116>>, <<98, 108>>, <<105, 122>>}
               /\ n + 1 < TmpSize
            THEN Append(tok, 101)
            ELSE tok

\* a doubled consonant other than l, s, z loses one
en_double(tok) ==
    IF ends_with_double_consonant_en(tok) /\ tok[Len(tok)] \notin {108, 115, 122}
        THEN SubSeq(tok, 1, Len(tok) - 1)
        ELSE tok

\* a final y after a prefix with a vowel becomes i
en_final_y(tok) ==
    LET n == Len(tok)
    IN  IF n >= 2 /\ tok[n] = 121
            THEN IF n >= TmpSize THEN tok
                 ELSE IF has_vowel_en(SubSeq(tok, 1, n - 1)) THEN [tok EXCEPT ![n] = 105]
                 ELSE tok
            ELSE tok

stem_en(tok) ==
    IF Len(tok) < 3 THEN tok
    ELSE LET a == en_plural(tok)
         IN  IF a.ret \/ Len(a.tok) < 3 THEN a.tok
             ELSE LET b == en_verb(a.tok)
                  IN  IF b.ret THEN b.tok
                      ELSE en_final_y(en_double(en_tail(b.tok)))

min_left_bytes_ru == 4

\* strip_first_match_ru from the 0-based index i of the list on: the token
\* and whether a suffix was cut; n is the length of the token
RECURSIVE strip_from(_, _, _)
strip_from(tok, sufs, i) ==
    IF i >= Len(sufs) THEN [tok |-> tok, hit |-> FALSE]
    ELSE LET suf == sufs[i + 1]
             m   == Len(suf)
             n   == Len(tok)
         IN  IF m = 0 THEN strip_from(tok, sufs, i + 1)
             ELSE IF m < n /\ ends_with_bytes(tok, suf) /\ (n - m) >= min_left_bytes_ru
                 THEN [tok |-> cut_suffix(tok, m), hit |-> TRUE]
             ELSE strip_from(tok, sufs, i + 1)

\* strip_first_match_ru that goes through the list from its end
strip_first_match_ru_Last(tok, sufs) ==
    strip_from(tok, [i \in 1..Len(sufs) |-> sufs[Len(sufs) + 1 - i]], 0)

strip_first_match_ru(tok, sufs) == strip_from(tok, sufs, 0)

\* the suffix lists of stem_ru, in UTF-8: ся сь
reflexive ==
    << <<209, 129, 209, 143>>, <<209, 129, 209, 140>> >>

\* ыми ими ого ему ому ее ие ое ая яя ый ий ой ые ие ых их ую юю
adj ==
    << <<209, 139, 208, 188, 208, 184>>, <<208, 184, 208, 188, 208, 184>>,
       <<208, 190, 208, 179, 208, 190>>, <<208, 181, 208, 188, 209, 131>>,
       <<208, 190, 208, 188, 209, 131>>, <<208, 181, 208, 181>>,
       <<208, 184, 208, 181>>, <<208, 190, 208, 181>>, <<208, 176, 209, 143>>,
       <<209, 143, 209, 143>>, <<209, 139, 208, 185>>, <<208, 184, 208, 185>>,
       <<208, 190, 208, 185>>, <<209, 139, 208, 181>>, <<208, 184, 208, 181>>,
       <<209, 139, 209, 133>>, <<208, 184, 209, 133>>, <<209, 131, 209, 142>>,
       <<209, 142, 209, 142>> >>

\* ившись ывшись вшись иться ать ять еть ить ыть нуть ала яла ела ила ыла али яли
\* ели или ылы ает яет еет ит ют уют яют ешь ишь ем им ете ите ал ял ел ил ыл
verb ==
    << <<208, 184, 208, 178, 209, 136, 208, 184, 209, 129, 209, 140>>,
       <<209, 139, 208, 178, 209, 136, 208, 184, 209, 129, 209, 140>>,
       <<208, 178, 209, 136, 208, 184, 209, 129, 209, 140>>,
       <<208, 184, 209, 130, 209, 140, 209, 129, 209, 143>>,
       <<208, 176, 209, 130, 209, 140>>, <<209, 143, 209, 130, 209, 140>>,
       <<208, 181, 209, 130, 209, 140>>, <<208, 184, 209, 130, 209, 140>>,
       <<209, 139, 209, 130, 209, 140>>, <<208, 189, 209, 131, 209, 130, 209, 140>>,
       <<208, 176, 208, 187, 208, 176>>, <<209, 143, 208, 187, 208, 176>>,
       <<208, 181, 208, 187, 208, 176>>, <<208, 184, 208, 187, 208, 176>>,
       <<209, 139, 208, 187, 208, 176>>, <<208, 176, 208, 187, 208, 184>>,
       <<209, 143, 208, 187, 208, 184>>, <<208, 181, 208, 187, 208, 184>>,
       <<208, 184, 208, 187, 208, 184>>, <<209, 139, 208, 187, 209, 139>>,
       <<208, 176, 208, 181, 209, 130>>, <<209, 143, 208, 181, 209, 130>>,
       <<208, 181, 208, 181, 209, 130>>, <<208, 184, 209, 130>>,
       <<209, 142, 209, 130>>, <<209, 131, 209, 142, 209, 130>>,
       <<209, 143, 209, 142, 209, 130>>, <<208, 181, 209, 136, 209, 140>>,
       <<208, 184, 209, 136, 209, 140>>, <<208, 181, 208, 188>>,
       <<208, 184, 208, 188>>, <<208, 181, 209, 130, 208, 181>>,
       <<208, 184, 209, 130, 208, 181>>, <<208, 176, 208, 187>>,
       <<209, 143, 208, 187>>, <<208, 181, 208, 187>>, <<208, 184, 208, 187>>,
       <<209, 139, 208, 187>> >>

\* иями ями ами ов ев ей ам ям ах ях ом ем ой ей ою ею а я у ю е о ы и ь
noun ==
    << <<208, 184, 209, 143, 208, 188, 208, 184>>, <<209, 143, 208, 188, 208, 184>>,
       <<208, 176, 208, 188, 208, 184>>, <<208, 190, 208, 178>>,
       <<208, 181, 208, 178>>, <<208, 181, 208, 185>>, <<208, 176, 208, 188>>,
       <<209, 143, 208, 188>>, <<208, 176, 209, 133>>, <<209, 143, 209, 133>>,
       <<208, 190, 208, 188>>, <<208, 181, 208, 188>>, <<208, 190, 208, 185>>,
       <<208, 181, 208, 185>>, <<208, 190, 209, 142>>, <<208, 181, 209, 142>>,
       <<208, 176>>, <<209, 143>>, <<209, 131>>, <<209, 142>>, <<208, 181>>,
       <<208, 190>>, <<209, 139>>, <<208, 184>>, <<209, 140>> >>

\* stem_ru that tries the nouns before the verbs
stem_ru_NounFirst(tok) ==
    LET r == strip_first_match_ru(tok, reflexive).tok
        a == strip_first_match_ru(r, adj)
        v == strip_first_match_ru(r, noun)
    IN  IF a.hit THEN strip_first_match_ru(a.tok, noun).tok
        ELSE IF v.hit THEN v.tok
        ELSE strip_first_match_ru(r, verb).tok

stem_ru(tok) ==
    LET r == strip_first_match_ru(tok, reflexive).tok
        a == strip_first_match_ru(r, adj)
        v == strip_first_match_ru(r, verb)
    IN  IF a.hit THEN strip_first_match_ru(a.tok, noun).tok
        ELSE IF v.hit THEN v.tok
        ELSE strip_first_match_ru(r, noun).tok

stem_auto(tok) == IF has_cyrillic_utf8(tok) THEN stem_ru(tok) ELSE stem_en(tok)

\* main of stem for one line: the stem by the --lang argument
stem_line(lg, tok) ==
    IF lg = "en" THEN stem_en(tok)
    ELSE IF lg = "ru" THEN stem_ru(tok)
    ELSE stem_auto(tok)

(***************************************************************************)
(* Paths, document ids and file headers (bool_index).                      *)
(***************************************************************************)
\* last 0-based position of the byte c in s, or -1
RECURSIVE rfind_byte(_, _, _)
rfind_byte(s, c, i) ==
    IF i < 0 THEN -1
    ELSE IF s[i + 1] = c THEN i
    ELSE rfind_byte(s, c, i - 1)

\* fs::path::filename: what follows the last '/'
path_filename(p) == substr_from(p, rfind_byte(p, 47, Len(p) - 1) + 1)

\* fs::path::stem: the filename up to its last '.', the whole filename when
\* it has no '.' beyond position 0 or is ".."
path_stem(p) ==
    LET f == path_filename(p)
        d == rfind_byte(f, 46, Len(f) - 1)
    IN  IF d <= 0 \/ f = <<46, 46>> THEN f ELSE substr(f, 0, d)

\* fs::path::extension: from the last '.' of the filename on
path_extension(p) ==
    LET f == path_filename(p)
        d == rfind_byte(f, 46, Len(f) - 1)
    IN  IF d <= 0 \/ f = <<46, 46>> THEN <<>> ELSE substr_from(f, d)

\* The digits of the stem, read as one base-10 number.  uint32_t wraps at
\* 2^32; the stems of the model have at most five digits, so no value wraps.
RECURSIVE docid_from(_, _, _)
docid_from(stem, i, v) ==
    IF i >= Len(stem) THEN v
    ELSE IF stem[i + 1] < 48 \/ stem[i + 1] > 57 THEN docid_from(stem, i + 1, v)
    ELSE docid_from(stem, i + 1, v * 10 + (stem[i + 1] - 48))

parse_docid_from_name(p) == docid_from(path_stem(p), 0, 0)

\* "en" for a path with /enwiki/, else "ru" for one with /ruwiki/, else "unk"
lang_of(ps) ==
    IF find(ps, <<47, 101, 110, 119, 105, 107, 105, 47>>, 0) # -1 THEN <<101, 110>>
    ELSE IF find(ps, <<47, 114, 117, 119, 105, 107, 105, 47>>, 0) # -1 THEN <<114, 117>>
    ELSE <<117, 110, 107>>

\* docid = docid_local + (lang == "ru" ? 30000 : 0)
docid_of(p) ==
    parse_docid_from_name(p) + (IF lang_of(p) = <<114, 117>> THEN 30000 ELSE 0)

\* value of a "Title:" / "URL:" line: the rest, less one leading blank
header_value(line, n) ==
    LET v == substr_from(line, n)
    IN  IF v # <<>> /\ v[1] = 32 THEN Tail(v) ELSE v

\* parse_header: reads up to 6 lines; the last Title:/URL: line wins
RECURSIVE parse_header_from(_, _, _, _)
parse_header_from(lines, i, title, url) ==
    IF i >= 6 \/ i >= Len(lines) THEN [title |-> title, url |-> url]
    ELSE LET line == lines[i + 1] IN
         IF starts_with(line, <<84, 105, 116, 108, 101, 58>>)
             THEN parse_header_from(lines, i + 1, header_value(line, 6), url)
         ELSE IF starts_with(line, <<85, 82, 76, 58>>)
             THEN parse_header_from(lines, i + 1, title, header_value(line, 4))
         ELSE parse_header_from(lines, i + 1, title, url)

parse_header(lines) == parse_header_from(lines, 0, <<>>, <<>>)

\* the lines left in the stream after parse_header
body_lines(lines) == IF Len(lines) <= 6 THEN <<>> ELSE SubSeq(lines, 7, Len(lines))

\* docs_line with the docid of the file name, the language offset left out
docs_line_NoOffset(f) ==
    LET h == parse_header(f.lines)
    IN  to_dec(parse_docid_from_name(f.path)) \o <<9>> \o lang_of(f.path) \o <<9>> \o h.title
            \o <<9>> \o h.url \o <<9>> \o f.path

\* one line of docs.tsv: docid \t lang \t title \t url \t path
docs_line(f) ==
    LET h == parse_header(f.lines)
    IN  to_dec(docid_of(f.path)) \o <<9>> \o lang_of(f.path) \o <<9>> \o h.title
            \o <<9>> \o h.url \o <<9>> \o f.path

\* std::sort of the collected paths.  Paths are compared as byte strings,
\* which is the order of fs::path for the paths of the model.
RECURSIVE sort_files(_)
sort_files(S) ==
    IF S = {} THEN <<>>
    ELSE LET m == CHOOSE f \in S : \A g \in S : g = f \/ strcmp(f.path, g.path) < 0
         IN  <<m>> \o sort_files(S \ {m})

\* collect_text_files: the regular files with extension .txt and /text/ in
\* their path, sorted
collect_text_files(disk) ==
    sort_files({f \in disk : /\ path_extension(f.path) = <<46, 116, 120, 116>>
                             /\ find(f.path, <<47, 116, 101, 120, 116, 47>>, 0) # -1})

(***************************************************************************)
(* The term table and the per-document seen set (bool_index).              *)
(***************************************************************************)
RECURSIVE bit_xor(_, _)
bit_xor(a, b) ==
    IF a = 0 THEN b
    ELSE IF b = 0 THEN a
    ELSE ((a + b) % 2) + 2 * bit_xor(a \div 2, b \div 2)

\* FNV-1a as the source computes it, kept to its low 16 bits: the xor with a
\* byte and the multiplication modulo 2^64 decide the low 16 bits from the
\* low 16 bits alone, and the bucket index h % nb reads no other bit, nb
\* being a power of two.  899 and 435 are the low 16 bits of the source's
\* offset basis and prime.
RECURSIVE fnv1a64_from(_, _, _)
fnv1a64_from(s, i, h) ==
    IF i >= Len(s) THEN h
    ELSE fnv1a64_from(s, i + 1, (bit_xor(h, s[i + 1]) * 435) % 65536)

fnv1a64(s) == fnv1a64_from(s, 0, 899)

\* tt_init: nb empty chains.  An entry is named by its position in ents
\* (the pointer of the source); 0 is nullptr.
tt_init(nbuckets) == [nb |-> nbuckets, buckets |-> [b \in 0..(nbuckets - 1) |-> <<>>], ents |-> <<>>]

\* the walk along one chain, head first
RECURSIVE chain_find(_, _, _)
chain_find(ents, chain, term) ==
    IF chain = <<>> THEN 0
    ELSE LET e == ents[Head(chain)] IN
         IF Len(e.term) = Len(term) /\ memcmp(e.term, term, Len(term)) = 0 THEN Head(chain)
         ELSE chain_find(ents, Tail(chain), term)

\* tt_get_or_add: the entry of term, made and put at the head of its chain
\* when there is none.  ph is the new entry's (uint32_t)ptr_hash(e) & mask,
\* which the address malloc returns decides.
tt_get_or_add(tt, term, ph) ==
    LET bi == fnv1a64(term) % tt.nb
        e  == chain_find(tt.ents, tt.buckets[bi], term)
        ne == Len(tt.ents) + 1
    IN  IF e # 0 THEN [tt |-> tt, e |-> e]
        ELSE [tt |-> [tt EXCEPT !.buckets[bi] = <<ne>> \o @,
                                !.ents = Append(@, [term |-> term, df |-> 0,
                                                    postings |-> <<>>, ph |-> ph])],
              e  |-> ne]

\* seen_init / seen_reset: every slot null
seen_reset(cap) == [i \in 0..(cap - 1) |-> 0]

\* seen_insert: linear probing from slot i; TRUE when e was put into a free
\* slot, FALSE when e is found or when cap probes found neither
RECURSIVE seen_probe(_, _, _, _)
seen_probe(slots, e, i, step) ==
    LET cap == Cardinality(DOMAIN slots) IN
    IF step >= cap THEN [ok |-> FALSE, slots |-> slots]
    ELSE IF slots[i] = 0 THEN [ok |-> TRUE, slots |-> [slots EXCEPT ![i] = e]]
    ELSE IF slots[i] = e THEN [ok |-> FALSE, slots |-> slots]
    ELSE seen_probe(slots, e, (i + 1) % cap, step + 1)

seen_insert(slots, e, ph) == seen_probe(slots, e, ph, 0)

\* pl_push
pl_push(pl, docid) == Append(pl, docid)

(***************************************************************************)
(* Serialisation of the index (bool_index).                                *)
(***************************************************************************)
RECURSIVE insert_u32(_, _)
insert_u32(s, v) ==
    IF s = <<>> THEN <<v>>
    ELSE IF v < Head(s) THEN <<v>> \o s
    ELSE <<Head(s)>> \o insert_u32(Tail(s), v)

\* std::sort of uint32_t
RECURSIVE sort_u32(_)
sort_u32(a) == IF a = <<>> THEN <<>> ELSE insert_u32(sort_u32(Tail(a)), Head(a))

\* compact_from without the loop: the sorted list is written as it is
compact_from_Keep(a, j, w) == a

\* the compaction loop of build_index: a[w++] = a[j] when a[j] differs from
\* the last value kept
RECURSIVE compact_from(_, _, _)
compact_from(a, j, w) ==
    IF j >= Len(a) THEN SubSeq(a, 1, w)
    ELSE IF w = 0 \/ a[j + 1] # a[w]
        THEN compact_from([a EXCEPT ![w + 1] = a[j + 1]], j + 1, w + 1)
    ELSE compact_from(a, j + 1, w)

\* the bucket scan that fills arr: buckets in index order, each chain head first
RECURSIVE collect_entries(_, _)
collect_entries(tt, bi) ==
    IF bi >= tt.nb THEN <<>> ELSE tt.buckets[bi] \o collect_entries(tt, bi + 1)

\* qsort of arr with the strcmp comparator (no two terms compare equal)
RECURSIVE insert_entry(_, _, _)
insert_entry(ents, s, e) ==
    IF s = <<>> THEN <<e>>
    ELSE IF strcmp(ents[e].term, ents[Head(s)].term) < 0 THEN <<e>> \o s
    ELSE <<Head(s)>> \o insert_entry(ents, Tail(s), e)

RECURSIVE qsort_entries(_, _)
qsort_entries(ents, arr) ==
    IF arr = <<>> THEN <<>>
    ELSE insert_entry(ents, qsort_entries(ents, Tail(arr)), Head(arr))

\* the raw bytes of one uint32_t on a little-endian host
u32_bytes(v) == <<v % 256, (v \div 256) % 256, (v \div 65536) % 256, (v \div 16777216) % 256>>

RECURSIVE raw_bytes(_)
raw_bytes(a) == IF a = <<>> THEN <<>> ELSE u32_bytes(Head(a)) \o raw_bytes(Tail(a))

\* the writing loop of build_index over the sorted arr
RECURSIVE write_index(_, _, _, _, _)
write_index(ents, arr, i, offset, out) ==
    IF i >= Len(arr) THEN out
    ELSE LET e         == ents[arr[i + 1]]
             a         == compact_from(sort_u32(e.postings), 0, 0)
             df        == Len(a)
             bytes_len == df * 4
             line      == e.term \o <<9>> \o to_dec(df) \o <<9>> \o to_dec(offset)
                              \o <<9>> \o to_dec(bytes_len)
         IN  write_index(ents, arr, i + 1, offset + bytes_len,
                         [terms    |-> Append(out.terms, line),
                          postings |-> out.postings \o raw_bytes(a)])

(***************************************************************************)
(* The index reader (bool_search).                                         *)
(***************************************************************************)
\* the positions p1..pk of the first k tabs of line, each searched after the
\* one before; -1 from the first that is missing
RECURSIVE tab_positions(_, _, _)
tab_positions(line, from, k) ==
    IF k = 0 THEN <<>>
    ELSE LET p == find(line, <<9>>, from)
         IN  IF p = -1 THEN <<-1>> ELSE <<p>> \o tab_positions(line, p + 1, k - 1)

has_tabs(line, k) ==
    LET ps == tab_positions(line, 0, k) IN Len(ps) = k /\ ps[k] # -1

\* the DocRec of one line of docs.tsv
doc_rec(line) ==
    LET ps == tab_positions(line, 0, 4)
    IN  [docid |-> strtoul(substr(line, 0, ps[1])),
         lang  |-> substr(line, ps[1] + 1, ps[2] - ps[1] - 1),
         title |-> substr(line, ps[2] + 1, ps[3] - ps[2] - 1),
         url   |-> substr(line, ps[3] + 1, ps[4] - ps[3] - 1)]

\* the reading loop of load_docs: empty lines and lines with fewer than four
\* tabs are passed over
RECURSIVE read_docs(_)
read_docs(lines) ==
    IF lines = <<>> THEN <<>>
    ELSE IF Head(lines) = <<>> \/ ~has_tabs(Head(lines), 4) THEN read_docs(Tail(lines))
    ELSE <<doc_rec(Head(lines))>> \o read_docs(Tail(lines))

\* std::unique: of each run of equal values the first is kept
RECURSIVE std_unique(_)
std_unique(a) ==
    IF Len(a) <= 1 THEN a
    ELSE IF a[1] = a[2] THEN std_unique(Tail(a))
    ELSE <<a[1]>> \o std_unique(Tail(a))

\* the universe of load_docs: the docids read, sorted, duplicates erased
universe_of(docs) == std_unique(sort_u32([i \in 1..Len(docs) |-> docs[i].docid]))

\* std::sort of docs_sorted by docid: every order of the records with
\* ascending docids (the sort is not stable, so records with equal docids
\* come in any order)
sorted_docs(docs) ==
    LET n == Len(docs)
    IN  { [i \in 1..n |-> docs[perm[i]]] :
            perm \in { q \in [1..n -> 1..n] :
                         /\ \A i, j \in 1..n : i # j => q[i] # q[j]
                         /\ \A i \in 1..(n - 1) : docs[q[i]].docid <= docs[q[i + 1]].docid } }

\* read_dict that stops reading at a line with fewer than three tabs
RECURSIVE read_dict_StopAtShort(_, _)
read_dict_StopAtShort(lines, acc) ==
    IF lines = <<>> THEN acc
    ELSE LET line == Head(lines) IN
         IF line = <<>> THEN read_dict_StopAtShort(Tail(lines), acc)
         ELSE IF ~has_tabs(line, 3) THEN acc
         ELSE LET ps   == tab_positions(line, 0, 3)
                  term == substr(line, 0, ps[1])
                  e    == [term_off |-> Len(acc.term_pool),
                           term_len |-> Len(term),
                           df       |-> strtoul(substr(line, ps[1] + 1, ps[2] - ps[1] - 1)),
                           post_off |-> strtoul(substr(line, ps[2] + 1, ps[3] - ps[2] - 1)),
                           post_len |-> strtoul(substr_from(line, ps[3] + 1))]
              IN  read_dict_StopAtShort(Tail(lines),
                                        [term_pool |-> acc.term_pool \o term,
                                         dict      |-> Append(acc.dict, e)])

\* the reading loop of load_dict: empty lines and lines with fewer than
\* three tabs are passed over; the terms are copied into one pool
RECURSIVE read_dict(_, _)
read_dict(lines, acc) ==
    IF lines = <<>> THEN acc
    ELSE LET line == Head(lines) IN
         IF line = <<>> \/ ~has_tabs(line, 3) THEN read_dict(Tail(lines), acc)
         ELSE LET ps   == tab_positions(line, 0, 3)
                  term == substr(line, 0, ps[1])
                  e    == [term_off |-> Len(acc.term_pool),
                           term_len |-> Len(term),
                           df       |-> strtoul(substr(line, ps[1] + 1, ps[2] - ps[1] - 1)),
                           post_off |-> strtoul(substr(line, ps[2] + 1, ps[3] - ps[2] - 1)),
                           post_len |-> strtoul(substr_from(line, ps[3] + 1))]
              IN  read_dict(Tail(lines), [term_pool |-> acc.term_pool \o term,
                                          dict      |-> Append(acc.dict, e)])

load_dict(lines) == read_dict(lines, [term_pool |-> <<>>, dict |-> <<>>])

\* dict_term_ptr with the entry's length: the bytes of the entry's term
dict_term(ix, e) == substr(ix.term_pool, e.term_off, e.term_len)

\* term_cmp without the comparison of the lengths
term_cmp_NoLength(ix, e, t) == memcmp(dict_term(ix, e), t, Min(e.term_len, Len(t)))

term_cmp(ix, e, t) ==
    LET p == dict_term(ix, e)
        n == e.term_len
        m == Len(t)
        c == memcmp(p, t, Min(n, m))
    IN  IF c # 0 THEN c
        ELSE IF n < m THEN -1
        ELSE IF n > m THEN 1
        ELSE 0

\* binsearch_term: the 0-based position of t in the dictionary, or -1
RECURSIVE binsearch_from(_, _, _, _)
binsearch_from(ix, t, lo, hi) ==
    IF lo > hi THEN -1
    ELSE LET mid == lo + (hi - lo) \div 2
             c   == term_cmp(ix, ix.dict[mid + 1], t)
         IN  IF c = 0 THEN mid
             ELSE IF c < 0 THEN binsearch_from(ix, t, mid + 1, hi)
             ELSE binsearch_from(ix, t, lo, mid - 1)

binsearch_term(ix, t) == binsearch_from(ix, t, 0, Len(ix.dict) - 1)

\* one uint32_t from four raw bytes of a little-endian host
u32_of(b, k) == b[k + 1] + 256 * b[k + 2] + 65536 * b[k + 3] + 16777216 * b[k + 4]

\* the uint32_t values of the first len bytes at the offset off of the file
read_u32s(file, off, len) ==
    LET b == substr(file, off, len)
    IN  [k \in 1..(Len(b) \div 4) |-> u32_of(b, 4 * (k - 1))]

\* load_postings: the posting list of term, empty when the dictionary has no
\* such term.  The list has df elements, filled from post_len bytes; the
\* dictionaries of the model have post_len = 4 * df.
load_postings(ix, term) ==
    LET pos == binsearch_term(ix, term)
    IN  IF pos < 0 THEN <<>>
        ELSE LET e == ix.dict[pos + 1]
             IN  IF e.df = 0 \/ e.post_len = 0 THEN <<>>
                 ELSE LET a == read_u32s(ix.postings, e.post_off, e.post_len)
                      IN  SubSeq(a, 1, e.df)

(***************************************************************************)
(* Sorted set algebra and the evaluator (bool_search).                     *)
(***************************************************************************)
\* op_and_from with the two advancing branches exchanged
RECURSIVE op_and_from_Swapped(_, _, _, _, _)
op_and_from_Swapped(A, B, i, j, R) ==
    IF ~(i < Len(A) /\ j < Len(B)) THEN R
    ELSE LET a == A[i + 1]
             b == B[j + 1]
         IN  IF a = b THEN op_and_from_Swapped(A, B, i + 1, j + 1, Append(R, a))
             ELSE IF a < b THEN op_and_from_Swapped(A, B, i, j + 1, R)
             ELSE op_and_from_Swapped(A, B, i + 1, j, R)

RECURSIVE op_and_from(_, _, _, _, _)
op_and_from(A, B, i, j, R) ==
    IF ~(i < Len(A) /\ j < Len(B)) THEN R
    ELSE LET a == A[i + 1]
             b == B[j + 1]
         IN  IF a = b THEN op_and_from(A, B, i + 1, j + 1, Append(R, a))
             ELSE IF a < b THEN op_and_from(A, B, i + 1, j, R)
             ELSE op_and_from(A, B, i, j + 1, R)

op_and(A, B) == IF Len(A) = 0 \/ Len(B) = 0 THEN <<>> ELSE op_and_from(A, B, 0, 0, <<>>)

\* op_or_from that, on equal heads, moves on in A only
RECURSIVE op_or_from_Dup(_, _, _, _, _)
op_or_from_Dup(A, B, i, j, R) ==
    IF i < Len(A) /\ j < Len(B)
        THEN LET a == A[i + 1]
                 b == B[j + 1]
             IN  IF a <= b THEN op_or_from_Dup(A, B, i + 1, j, Append(R, a))
                 ELSE op_or_from_Dup(A, B, i, j + 1, Append(R, b))
    ELSE R \o substr_from(A, i) \o substr_from(B, j)

\* op_or_from that copies the rest of A and forgets the rest of B
RECURSIVE op_or_from_NoTail(_, _, _, _, _)
op_or_from_NoTail(A, B, i, j, R) ==
    IF i < Len(A) /\ j < Len(B)
        THEN LET a == A[i + 1]
                 b == B[j + 1]
             IN  IF a = b THEN op_or_from_NoTail(A, B, i + 1, j + 1, Append(R, a))
                 ELSE IF a < b THEN op_or_from_NoTail(A, B, i + 1, j, Append(R, a))
                 ELSE op_or_from_NoTail(A, B, i, j + 1, Append(R, b))
    ELSE R \o substr_from(A, i)

RECURSIVE op_or_from(_, _, _, _, _)
op_or_from(A, B, i, j, R) ==
    IF i < Len(A) /\ j < Len(B)
        THEN LET a == A[i + 1]
                 b == B[j + 1]
             IN  IF a = b THEN op_or_from(A, B, i + 1, j + 1, Append(R, a))
                 ELSE IF a < b THEN op_or_from(A, B, i + 1, j, Append(R, a))
                 ELSE op_or_from(A, B, i, j + 1, Append(R, b))
    ELSE R \o substr_from(A, i) \o substr_from(B, j)

op_or(A, B) == op_or_from(A, B, 0, 0, <<>>)

\* the inner loop of op_not: j moves over the elements of B below u
\* skip_below that never moves j
skip_below_Stuck(B, j, u) == j

RECURSIVE skip_below(_, _, _)
skip_below(B, j, u) == IF j < Len(B) /\ B[j + 1] < u THEN skip_below(B, j + 1, u) ELSE j

RECURSIVE op_not_from(_, _, _, _, _)
op_not_from(U, B, i, j, R) ==
    IF i >= Len(U) THEN R
    ELSE LET u  == U[i + 1]
             j2 == skip_below(B, j, u)
         IN  IF j2 < Len(B) /\ B[j2 + 1] = u THEN op_not_from(U, B, i + 1, j2, R)
             ELSE op_not_from(U, B, i + 1, j2, Append(R, u))

op_not(U, B) == IF U = <<>> THEN <<>> ELSE op_not_from(U, B, 0, 0, <<>>)

\* AST nodes
TermNode(t) == [t |-> "TERM", term |-> t]
NotNode(a) == [t |-> "NOT", a |-> a]
AndNode(a, b) == [t |-> "AND", a |-> a, b |-> b]
OrNode(a, b) == [t |-> "OR", a |-> a, b |-> b]

RECURSIVE eval(_, _)
eval(ix, n) ==
    IF n.t = "TERM" THEN load_postings(ix, lowercase_inplace(n.term))
    ELSE IF n.t = "NOT" THEN op_not(ix.universe, eval(ix, n.a))
    ELSE IF n.t = "AND" THEN op_and(eval(ix, n.a), eval(ix, n.b))
    ELSE IF n.t = "OR" THEN op_or(eval(ix, n.a), eval(ix, n.b))
    ELSE <<>>

(***************************************************************************)
(* The query lexer and the recursive-descent parser (bool_search).         *)
(***************************************************************************)
is_space(c) == c \in {32, 9, 10, 13}

\* the first position >= i that holds no white space (or the end)
RECURSIVE skip_space(_, _)
skip_space(qs, i) ==
    IF i < Len(qs) /\ is_space(qs[i + 1]) THEN skip_space(qs, i + 1) ELSE i

\* the end of the word that starts at i: the first position >= j with white
\* space or a parenthesis (or the end)
RECURSIVE word_end(_, _)
word_end(qs, j) ==
    IF j < Len(qs) /\ ~is_space(qs[j + 1]) /\ qs[j + 1] # 40 /\ qs[j + 1] # 41
        THEN word_end(qs, j + 1)
        ELSE j

Tok(t, s) == [t |-> t, s |-> s]

\* F of the value of v: v is computed once, before F is entered (a local
\* variable of the code that is assigned once and read several times)
Bind(v, F(_)) == CHOOSE r \in { F(x) : x \in {v} } : TRUE

\* the token of a word: and / or / not in any case are operators, every
\* other word a term that carries the text as it was typed
word_tok(w) ==
    Bind(lowercase_inplace(w), LAMBDA wl :
        IF wl = <<97, 110, 100>> THEN Tok("AND", w)
        ELSE IF wl = <<111, 114>> THEN Tok("OR", w)
        ELSE IF wl = <<110, 111, 116>> THEN Tok("NOT", w)
        ELSE Tok("TERM", w))

RECURSIVE lex_from(_, _, _)
lex_from(qs, i0, out) ==
    Bind(skip_space(qs, i0), LAMBDA i :
        IF i >= Len(qs) THEN Append(out, Tok("END", <<>>))
        ELSE LET c == qs[i + 1] IN
             IF c = 40 THEN lex_from(qs, i + 1, Append(out, Tok("LP", <<40>>)))
             ELSE IF c = 41 THEN lex_from(qs, i + 1, Append(out, Tok("RP", <<41>>)))
             ELSE IF c = 45 THEN lex_from(qs, i + 1, Append(out, Tok("NOT", <<45>>)))
             ELSE Bind(word_end(qs, i), LAMBDA j :
                      lex_from(qs, j, Append(out, word_tok(substr(qs, i, j - i))))))

lex(qs) == lex_from(qs, 0, <<>>)

\* What a parse function gives back: the node and the parser's position, or
\* ok = FALSE when die was called (the process exits with code 2).
Parsed(n, pos) == [ok |-> TRUE, n |-> n, pos |-> pos]
ParseDie == [ok |-> FALSE, n |-> [t |-> "NONE"], pos |-> 0]

\* Parser::cur
cur(toks, pos) == toks[pos + 1]

RECURSIVE parse_expr(_, _)
RECURSIVE parse_unary(_, _)

parse_primary(toks, pos) ==
    IF cur(toks, pos).t = "TERM" THEN Parsed(TermNode(cur(toks, pos).s), pos + 1)
    ELSE IF cur(toks, pos).t = "LP"
        THEN Bind(parse_expr(toks, pos + 1), LAMBDA r :
                 IF ~r.ok THEN r
                 ELSE IF cur(toks, r.pos).t # "RP" THEN ParseDie
                 ELSE Parsed(r.n, r.pos + 1))
    ELSE ParseDie

parse_unary(toks, pos) ==
    IF cur(toks, pos).t = "NOT"
        THEN Bind(parse_unary(toks, pos + 1), LAMBDA r :
                 IF ~r.ok THEN r ELSE Parsed(NotNode(r.n), r.pos))
        ELSE parse_primary(toks, pos)

\* parse_and_loop that takes OR as it takes AND: one level for both
RECURSIVE parse_and_loop_Flat(_, _, _)
parse_and_loop_Flat(toks, left, pos) ==
    IF cur(toks, pos).t \in {"AND", "OR"}
        THEN Bind(parse_unary(toks, pos + 1), LAMBDA r :
                 IF ~r.ok THEN r
                 ELSE parse_and_loop_Flat(toks,
                          IF cur(toks, pos).t = "AND" THEN AndNode(left, r.n)
                                                      ELSE OrNode(left, r.n),
                          r.pos))
        ELSE Parsed(left, pos)

\* the while loop of parse_and, with left parsed up to pos
RECURSIVE parse_and_loop(_, _, _)
parse_and_loop(toks, left, pos) ==
    IF cur(toks, pos).t = "AND"
        THEN Bind(parse_unary(toks, pos + 1), LAMBDA r :
                 IF ~r.ok THEN r ELSE parse_and_loop(toks, AndNode(left, r.n), r.pos))
        ELSE Parsed(left, pos)

parse_and(toks, pos) ==
    Bind(parse_unary(toks, pos), LAMBDA l :
        IF ~l.ok THEN l ELSE parse_and_loop(toks, l.n, l.pos))

\* the while loop of parse_expr, with left parsed up to pos
RECURSIVE parse_expr_loop(_, _, _)
parse_expr_loop(toks, left, pos) ==
    IF cur(toks, pos).t = "OR"
        THEN Bind(parse_and(toks, pos + 1), LAMBDA r :
                 IF ~r.ok THEN r ELSE parse_expr_loop(toks, OrNode(left, r.n), r.pos))
        ELSE Parsed(left, pos)

parse_expr(toks, pos) ==
    Bind(parse_and(toks, pos), LAMBDA l :
        IF ~l.ok THEN l ELSE parse_expr_loop(toks, l.n, l.pos))

\* parse_query without the check for trailing tokens
parse_query_NoEnd(qs) == Bind(lex(qs), LAMBDA toks : parse_expr(toks, 0))

\* run_query up to eval: the AST of the query string, or ok = FALSE when the
\* parser or the check for trailing tokens calls die
parse_query(qs) ==
    Bind(lex(qs), LAMBDA toks :
        Bind(parse_expr(toks, 0), LAMBDA r :
            IF ~r.ok THEN r
            ELSE IF cur(toks, r.pos).t # "END" THEN ParseDie
            ELSE r))

\* run_query: ok = FALSE when it dies, else the AST and the result of eval
run_query(ix, qs) ==
    Bind(parse_query(qs), LAMBDA r :
        IF ~r.ok THEN [ok |-> FALSE, ast |-> r.n, r |-> <<>>]
        ELSE [ok |-> TRUE, ast |-> r.n, r |-> eval(ix, r.n)])

(***************************************************************************)
(* The output formatter (bool_search).                                     *)
(***************************************************************************)
\* find_doc: 0-based position in docs_sorted of a record with the docid, or -1
RECURSIVE find_doc_from(_, _, _, _)
find_doc_from(ds, d, lo, hi) ==
    IF lo >= hi THEN -1
    ELSE LET mid == lo + (hi - lo) \div 2
             v   == ds[mid + 1].docid
         IN  IF v = d THEN mid
             ELSE IF v < d THEN find_doc_from(ds, d, mid + 1, hi)
             ELSE find_doc_from(ds, d, lo, mid)

find_doc(ix, d) == find_doc_from(ix.docs_sorted, d, 0, Len(ix.docs_sorted))

\* one line of print_results, without its line feed
result_line(ix, d) ==
    LET k == find_doc(ix, d)
    IN  IF k >= 0
            THEN LET r == ix.docs_sorted[k + 1]
                 IN  to_dec(d) \o <<9>> \o r.lang \o <<9>> \o r.title \o <<9>> \o r.url
            ELSE to_dec(d) \o <<9, 63, 9, 63, 9, 63>>

\* print_results that takes no heed of --top: a line for every docid
print_results_All(ix, r, top) == [i \in 1..Len(r) |-> result_line(ix, r[i])]

\* print_results: the lines of the first min(n, topn) docids
print_results(ix, r, top) == [i \in 1..Min(Len(r), top) |-> result_line(ix, r[i])]

(***************************************************************************)
(* The inputs the model draws from.                                        *)
(***************************************************************************)
\* c/enwiki/text/1.txt, c/enwiki/text/30001.txt, c/ruwiki/text/1.txt,
\* c/misc/text/a1.txt (no language) and c/enwiki/meta/2.txt (not under /text/)
Paths ==
    { <<99, 47, 101, 110, 119, 105, 107, 105, 47, 116, 101, 120, 116, 47, 49, 46, 116, 120, 116>>,
      <<99, 47, 101, 110, 119, 105, 107, 105, 47, 116, 101, 120, 116, 47, 51, 48, 48, 48, 49, 46, 116, 120, 116>>,
      <<99, 47, 114, 117, 119, 105, 107, 105, 47, 116, 101, 120, 116, 47, 49, 46, 116, 120, 116>>,
      <<99, 47, 109, 105, 115, 99, 47, 116, 101, 120, 116, 47, 97, 49, 46, 116, 120, 116>>,
      <<99, 47, 101, 110, 119, 105, 107, 105, 47, 109, 101, 116, 97, 47, 50, 46, 116, 120, 116>> }

\* File contents, as lines:
\*   "Title: A" "URL: u" "" "" "" ""  then the body "ab B" "a"  (three terms)
\*   "Title:B" "" "" "" "" ""         then the body "b Б b"     (two terms)
\*   "Title: A"                        (a header and no body)
Contents ==
    { << <<84, 105, 116, 108, 101, 58, 32, 65>>, <<85, 82, 76, 58, 32, 117>>, <<>>, <<>>, <<>>, <<>>,
         <<97, 98, 32, 66>>, <<97>> >>,
      << <<84, 105, 116, 108, 101, 58, 66>>, <<>>, <<>>, <<>>, <<>>, <<>>,
         <<98, 32, 208, 145, 32, 98>> >>,
      << <<84, 105, 116, 108, 101, 58, 32, 65>> >> }

\* the corpora: at most MaxFiles files with distinct paths, each with some
\* content, each one readable or not
Corpora ==
    UNION { { { [path |-> p, ok |-> f[p][2], lines |-> f[p][1]] : p \in P } :
                f \in [P -> Contents \X BOOLEAN] } :
            P \in { X \in SUBSET Paths : Cardinality(X) >= 1 /\ Cardinality(X) <= MaxFiles } }

\* the terms a query names: a, B (folded to b by eval), zz (in no document)
QueryTerms == { <<97>>, <<66>>, <<122, 122>> }

QLeaves == { TermNode(t) : t \in QueryTerms }
QNots == { NotNode(n) : n \in QLeaves }
QBase == QLeaves \cup QNots
QPairs == { AndNode(a, b) : a, b \in QBase } \cup { OrNode(a, b) : a, b \in QBase }
\* the ASTs that are evaluated: terms and negated terms, AND / OR over two
\* of those, and NOT over all of these
Queries == QBase \cup QPairs \cup { NotNode(n) : n \in QNots \cup QPairs }

\* the strictly ascending sequence of the elements of a set of numbers
RECURSIVE AscSeq(_)
AscSeq(S) ==
    IF S = {} THEN <<>>
    ELSE LET m == CHOOSE x \in S : \A y \in S : x <= y
         IN  <<m>> \o AscSeq(S \ {m})

\* all strictly ascending lists of docids 1..MaxDoc
AscLists == { AscSeq(S) : S \in SUBSET (1..MaxDoc) }

\* all sequences of at most n elements of S
SeqsUpTo(S, n) == UNION { [1..k -> S] : k \in 0..n }

\* Query strings given with --query: for terms x, y, z
\*   "x OR y AND z"   "NOT x AND y"   "(x OR y) AND NOT z"
\*   "x AND y AND z"  "x OR y OR z"
QOrAnd(x, y, z) == x \o <<32, 79, 82, 32>> \o y \o <<32, 65, 78, 68, 32>> \o z
QNotAnd(x, y) == <<78, 79, 84, 32>> \o x \o <<32, 65, 78, 68, 32>> \o y
QParen(x, y, z) ==
    <<40>> \o x \o <<32, 79, 82, 32>> \o y \o <<41, 32, 65, 78, 68, 32, 78, 79, 84, 32>> \o z
QAndAnd(x, y, z) == x \o <<32, 65, 78, 68, 32>> \o y \o <<32, 65, 78, 68, 32>> \o z
QOrOr(x, y, z) == x \o <<32, 79, 82, 32>> \o y \o <<32, 79, 82, 32>> \o z

\* "a B" and "(a B": two terms without an operator, a parenthesis not closed
BadArgQueries == { <<97, 32, 66>>, <<40, 97, 32, 66>> }

ArgQueries ==
    BadArgQueries
        \cup { QOrAnd(x, y, z) : x, y, z \in QueryTerms }
        \cup { QNotAnd(x, y) : x, y \in QueryTerms }
        \cup { QParen(x, y, z) : x, y, z \in QueryTerms }
        \cup { QAndAnd(x, y, z) : x, y, z \in QueryTerms }
        \cup { QOrOr(x, y, z) : x, y, z \in QueryTerms }

\* Lines of standard input:
\*   "a"  "-a or B"  "(zz)"   (queries)    ""  (empty)    "#a"  (comment)
\*   "a B"  "(a"  "a AND"  ")"  " "  "a OR OR B"   (not queries)
StdinLines ==
    { <<97>>, <<45, 97, 32, 111, 114, 32, 66>>, <<40, 122, 122, 41>>,
      <<>>, <<35, 97>>,
      <<97, 32, 66>>, <<40, 97>>, <<97, 32, 65, 78, 68>>, <<41>>, <<32>>,
      <<97, 32, 79, 82, 32, 79, 82, 32, 66>> }

\* the pieces back to back
RECURSIVE Flatten(_)
Flatten(ps) == IF ps = <<>> THEN <<>> ELSE Head(ps) \o Flatten(Tail(ps))

\* What the lines that are tokenized are made of: A, 1, the connectors - + .
\* and ', a blank, the Cyrillic capital U+0410 (D0 90), an overlong form of
\* P (C1 90), the Greek letter U+0390 (CE 90), the hyphen U+2010 (E2 80 90),
\* a lead byte alone (D0) and a continuation byte alone (90).
TokPieces ==
    { <<65>>, <<49>>, <<45>>, <<43>>, <<46>>, <<39>>, <<32>>,
      <<208, 144>>, <<193, 144>>, <<206, 144>>, <<226, 128, 144>>, <<208>>, <<144>> }

\* "Hello, world! 3.14 and don't stop-now"
ExampleLine ==
    <<72, 101, 108, 108, 111, 44, 32, 119, 111, 114, 108, 100, 33, 32, 51, 46, 49, 52, 32,
      97, 110, 100, 32, 100, 111, 110, 39, 116, 32, 115, 116, 111, 112, 45, 110, 111, 119>>

\* Lines for the four-byte branch of the decoder: U+1F600 (F0 9F 98 80), the
\* same without its last byte, F4 90 80 80 and F7 BF BF BF (the bit patterns
\* of 0x110000 and 0x1FFFFF), a after U+1F600, and the lead byte F8.
DecoderLines ==
    { <<240, 159, 152, 128>>, <<240, 159, 152>>, <<244, 144, 128, 128>>,
      <<247, 191, 191, 191>>, <<240, 159, 152, 128, 97>>, <<248, 128>> }

TokLines ==
    { Flatten(ps) : ps \in SeqsUpTo(TokPieces, MaxPieces) } \cup {ExampleLine} \cup DecoderLines

\* The tokens given to the English stemmer: all words of 1..MaxWordLen
\* letters among a d e g i l n s t y, and
\*   running happily ponies caresses agreed feed cats cursed
EnLetters == {97, 100, 101, 103, 105, 108, 110, 115, 116, 121}

NamedEnWords ==
    { <<114, 117, 110, 110, 105, 110, 103>>, <<104, 97, 112, 112, 105, 108, 121>>,
      <<112, 111, 110, 105, 101, 115>>, <<99, 97, 114, 101, 115, 115, 101, 115>>,
      <<97, 103, 114, 101, 101, 100>>, <<102, 101, 101, 100>>, <<99, 97, 116, 115>>,
      <<99, 117, 114, 115, 101, 100>> }

EnWords == UNION { [1..k -> EnLetters] : k \in 1..MaxWordLen } \cup NamedEnWords

\* Tokens for the order of the suffixes and the four bytes that stay:
\*   рисуют гуляют поют уют мами домовойся
OrderRuWords ==
    { <<209, 128, 208, 184, 209, 129, 209, 131, 209, 142, 209, 130>>,
      <<208, 179, 209, 131, 208, 187, 209, 143, 209, 142, 209, 130>>,
      <<208, 191, 208, 190, 209, 142, 209, 130>>,
      <<209, 131, 209, 142, 209, 130>>,
      <<208, 188, 208, 176, 208, 188, 208, 184>>,
      <<208, 180, 208, 190, 208, 188, 208, 190, 208, 178, 208, 190, 208, 185, 209, 129, 209, 143>> }

\* The tokens given to the Russian stemmer:
\*   красивого бежать столами книга домовой учиться моется синей мыл ая
RuWords ==
    { <<208, 186, 209, 128, 208, 176, 209, 129, 208, 184, 208, 178, 208, 190, 208, 179, 208, 190>>,
      <<208, 177, 208, 181, 208, 182, 208, 176, 209, 130, 209, 140>>,
      <<209, 129, 209, 130, 208, 190, 208, 187, 208, 176, 208, 188, 208, 184>>,
      <<208, 186, 208, 189, 208, 184, 208, 179, 208, 176>>,
      <<208, 180, 208, 190, 208, 188, 208, 190, 208, 178, 208, 190, 208, 185>>,
      <<209, 131, 209, 135, 208, 184, 209, 130, 209, 140, 209, 129, 209, 143>>,
      <<208, 188, 208, 190, 208, 181, 209, 130, 209, 129, 209, 143>>,
      <<209, 129, 208, 184, 208, 189, 208, 181, 208, 185>>,
      <<208, 188, 209, 139, 208, 187>>,
      <<208, 176, 209, 143>> } \cup OrderRuWords

(***************************************************************************)
(* State.                                                                  *)
(***************************************************************************)
VARIABLES
    disk,          \* the files under the corpus root: [path, ok, lines]
    pc,            \* where the two programs are: "start", "file", "tokens",
                   \* "built" (bool_index has returned), "ready" (bool_search
                   \* has loaded the index), "answered", "dead" (exit 2), "ops",
                   \* "exit" (bool_search has ended), and those of the tools
    files,         \* build_index: the collected files, sorted
    fi,            \* build_index: index of the current file
    docid,         \* build_index: docid of the open file
    tokens,        \* build_index: the tokens of the open file's body
    ti,            \* build_index: number of tokens consumed
    tt,            \* the TermTable
    seen,          \* the SeenSet slots
    docs_tsv,      \* docs.tsv, as lines
    terms_tsv,     \* terms.tsv, as lines
    postings_bin,  \* postings.bin, as bytes
    ix,            \* the Index of bool_search
    q,             \* the AST last evaluated
    res,           \* its result
    opin,          \* SpecOps: the three posting lists A, B, C
    opout,         \* SpecOps: the results of the set operations on them
    argq,          \* bool_search: the --query argument, empty without it
    topn,          \* bool_search: the --top argument
    stdin,         \* bool_search: the lines of standard input
    nread,         \* bool_search: number of lines of standard input read
    stdout,        \* bool_search: the lines written to standard output
    exit_code,     \* bool_search: the exit code, -1 while it runs
    tok_line,      \* tokenize: the input line
    tok_out,       \* tokenize: the tokens emitted for the line
    tok_joined,    \* tokenize: those tokens, joined by single spaces
    tok_again,     \* tokenize: the tokens emitted for the joined text
    tok_bytes,     \* bool_index: the tokens its tokenizer emits for the line
    stem_lang,     \* stem: the --lang argument
    stem_word,     \* stem: the input token
    stem_out,      \* stem: the stem written for the token
    stem_again     \* stem: the stem written when that stem is the input

vars == <<disk, pc, files, fi, docid, tokens, ti, tt, seen, docs_tsv, terms_tsv,
          postings_bin, ix, q, res, opin, opout, argq, topn, stdin, nread, stdout,
          exit_code, tok_line, tok_out, tok_joined, tok_again, tok_bytes, stem_lang, stem_word,
          stem_out, stem_again>>

mainVars == <<argq, topn, stdin, nread, stdout, exit_code>>
tokVars == <<tok_line, tok_out, tok_joined, tok_again, tok_bytes>>
stemVars == <<stem_lang, stem_word, stem_out, stem_again>>
toolVars == <<mainVars, tokVars, stemVars>>

buildVars == <<files, fi, docid, tokens, ti, tt, seen>>
indexFiles == <<docs_tsv, terms_tsv, postings_bin>>
searchVars == <<ix, q, res>>
opsVars == <<opin, opout>>

NoTable == [nb |-> 0, buckets |-> <<>>, ents |-> <<>>]
NoIndex == [term_pool |-> <<>>, dict |-> <<>>, postings |-> <<>>,
            docs_sorted |-> <<>>, universe |-> <<>>]
NoQuery == [t |-> "NONE"]

BuildIdle ==
    /\ files = <<>> /\ fi = 0 /\ docid = 0 /\ tokens = <<>> /\ ti = 0
    /\ tt = NoTable /\ seen = <<>>

SearchIdle == ix = NoIndex /\ q = NoQuery /\ res = <<>>

OpsIdle == opin = <<>> /\ opout = <<>>

\* bool_search before main: no --query, the default --top, nothing read or
\* written
MainIdle ==
    /\ argq = <<>> /\ topn = 20 /\ stdin = <<>> /\ nread = 0 /\ stdout = <<>>
    /\ exit_code = -1

TokIdle ==
    tok_line = <<>> /\ tok_out = <<>> /\ tok_joined = <<>> /\ tok_again = <<>> /\ tok_bytes = <<>>

StemIdle == stem_lang = "auto" /\ stem_word = <<>> /\ stem_out = <<>> /\ stem_again = <<>>

ToolsIdle == MainIdle /\ TokIdle /\ StemIdle

\* both programs before they run: a corpus on disk, no index files yet
Init ==
    /\ disk \in Corpora
    /\ pc = "start"
    /\ BuildIdle
    /\ docs_tsv = <<>> /\ terms_tsv = <<>> /\ postings_bin = <<>>
    /\ SearchIdle
    /\ OpsIdle
    /\ ToolsIdle

(***************************************************************************)
(* bool_index build.                                                       *)
(***************************************************************************)
\* build_index up to its file loop: the files are collected and cut to the
\* limit, the table and the seen set made, docs.tsv opened.  No file: die.
Collect(limit) ==
    /\ pc = "start"
    /\ LET all == collect_text_files(disk)
           fs  == IF limit # 0 /\ limit < Len(all) THEN SubSeq(all, 1, limit) ELSE all
       IN  IF all = <<>>
               THEN /\ pc' = "dead"
                    /\ UNCHANGED buildVars
               ELSE /\ pc' = "file"
                    /\ files' = fs
                    /\ fi' = 0
                    /\ tt' = tt_init(Pow2(TableBits))
                    /\ seen' = seen_reset(Pow2(SeenBits))
                    /\ UNCHANGED <<docid, tokens, ti>>
    /\ UNCHANGED <<disk, indexFiles, searchVars, opsVars, toolVars>>

\* SkipFile that writes the docs.tsv record before it finds the file unopenable
SkipFile_Record ==
    /\ pc = "file"
    /\ fi < Len(files)
    /\ ~files[fi + 1].ok
    /\ fi' = fi + 1
    /\ docs_tsv' = Append(docs_tsv, docs_line(files[fi + 1]))
    /\ UNCHANGED <<disk, pc, files, docid, tokens, ti, tt, seen, terms_tsv, postings_bin,
                   searchVars, opsVars, toolVars>>

\* a file that cannot be opened: a warning, and on to the next
SkipFile ==
    /\ pc = "file"
    /\ fi < Len(files)
    /\ ~files[fi + 1].ok
    /\ fi' = fi + 1
    /\ UNCHANGED <<disk, pc, files, docid, tokens, ti, tt, seen, indexFiles, searchVars, opsVars, toolVars>>

\* a file that opens: header, docid, the docs.tsv record, seen_reset; the
\* body is read and tokenized line by line
OpenFile ==
    /\ pc = "file"
    /\ fi < Len(files)
    /\ files[fi + 1].ok
    /\ LET f == files[fi + 1]
       IN  /\ docid' = docid_of(f.path)
           /\ docs_tsv' = Append(docs_tsv, docs_line(f))
           /\ seen' = seen_reset(Cardinality(DOMAIN seen))
           /\ tokens' = tokenize_lines(body_lines(f.lines))
           /\ ti' = 0
    /\ pc' = "tokens"
    /\ UNCHANGED <<disk, files, fi, tt, terms_tsv, postings_bin, searchVars, opsVars, toolVars>>

\* one turn of the token loop: the term's entry is found or made, and the
\* docid pushed when seen_insert says the entry is new for this document
IndexToken ==
    /\ pc = "tokens"
    /\ ti < Len(tokens)
    /\ LET tok == tokens[ti + 1]
       IN  IF tok = <<>>
               THEN UNCHANGED <<tt, seen>>
               ELSE \E ph \in DOMAIN seen :
                       LET r  == tt_get_or_add(tt, tok, ph)
                           si == seen_insert(seen, r.e, r.tt.ents[r.e].ph)
                       IN  /\ seen' = si.slots
                           /\ tt' = IF si.ok
                                        THEN [r.tt EXCEPT !.ents[r.e].postings = pl_push(@, docid),
                                                          !.ents[r.e].df = @ + 1]
                                        ELSE r.tt
    /\ ti' = ti + 1
    /\ UNCHANGED <<disk, pc, files, fi, docid, tokens, indexFiles, searchVars, opsVars, toolVars>>

\* the body is exhausted: the next file
EndFile ==
    /\ pc = "tokens"
    /\ ti >= Len(tokens)
    /\ fi' = fi + 1
    /\ pc' = "file"
    /\ UNCHANGED <<disk, files, docid, tokens, ti, tt, seen, indexFiles, searchVars, opsVars, toolVars>>

\* after the last file: the entries are collected and sorted, each posting
\* list sorted and compacted, terms.tsv and postings.bin written, the table
\* and the seen set freed
Finalize ==
    /\ pc = "file"
    /\ fi >= Len(files)
    /\ LET arr == qsort_entries(tt.ents, collect_entries(tt, 0))
           out == write_index(tt.ents, arr, 0, 0, [terms |-> <<>>, postings |-> <<>>])
       IN  /\ terms_tsv' = out.terms
           /\ postings_bin' = out.postings
    /\ pc' = "built"
    /\ files' = <<>> /\ fi' = 0 /\ docid' = 0 /\ tokens' = <<>> /\ ti' = 0
    /\ tt' = NoTable /\ seen' = <<>>
    /\ UNCHANGED <<disk, docs_tsv, searchVars, opsVars, toolVars>>

(***************************************************************************)
(* bool_search.                                                            *)
(***************************************************************************)
\* main up to the query loop: load_docs, load_dict, open_postings
Load ==
    /\ pc = "built"
    /\ LET docs == read_docs(docs_tsv)
           d    == load_dict(terms_tsv)
       IN  \E ds \in sorted_docs(docs) :
               ix' = [term_pool   |-> d.term_pool,
                      dict        |-> d.dict,
                      postings    |-> postings_bin,
                      docs_sorted |-> ds,
                      universe    |-> universe_of(docs)]
    /\ pc' = "ready"
    /\ UNCHANGED <<disk, buildVars, indexFiles, q, res, opsVars, toolVars>>

\* eval of one AST over the loaded index (eval changes nothing of the index,
\* so one evaluation per run shows every result)
EvalQuery(n) ==
    /\ pc = "ready"
    /\ q' = n
    /\ res' = eval(ix, n)
    /\ pc' = "answered"
    /\ UNCHANGED <<disk, buildVars, indexFiles, ix, opsVars, toolVars>>

Next ==
    \/ \E limit \in 0..MaxLimit : Collect(limit)
    \/ SkipFile
    \/ OpenFile
    \/ IndexToken
    \/ EndFile
    \/ Finalize
    \/ Load
    \/ \E n \in Queries : EvalQuery(n)

Spec == Init /\ [][Next]_vars

(***************************************************************************)
(* bool_search over any well-formed index: the index files are written by  *)
(* hand in the builder's format, for a directory U and the posting lists A *)
(* of the term a and B of the term b, all strictly ascending.  A and B may *)
(* name docids that the directory does not have.                           *)
(***************************************************************************)
\* "d \t en \t T \t u \t p"
hand_docs_line(d) == to_dec(d) \o <<9, 101, 110, 9, 84, 9, 117, 9, 112>>

\* a sequence back to front
Reverse(a) == [i \in 1..Len(a) |-> a[Len(a) + 1 - i]]

InitEval ==
    /\ \E U \in AscLists, A \in AscLists, B \in AscLists :
          LET ents == << [term |-> <<97>>, postings |-> A], [term |-> <<98>>, postings |-> B] >>
              out  == write_index(ents, <<1, 2>>, 0, 0, [terms |-> <<>>, postings |-> <<>>])
          IN  /\ docs_tsv = Reverse([i \in 1..Len(U) |-> hand_docs_line(U[i])])
              /\ terms_tsv = out.terms
              /\ postings_bin = out.postings
    /\ disk = {}
    /\ pc = "built"
    /\ BuildIdle
    /\ SearchIdle
    /\ OpsIdle
    /\ ToolsIdle

NextEval ==
    \/ Load
    \/ \E n \in Queries : EvalQuery(n)

SpecEval == InitEval /\ [][NextEval]_vars

(***************************************************************************)
(* The build of a list of files that all open, told in one piece: the      *)
(* table and docs.tsv that the file loop leaves for the list.  The slot a  *)
(* new entry gets in the seen set comes from its address; sl gives the     *)
(* slot of the entry of every term.                                        *)
(***************************************************************************)
\* the terms of the bodies of the model's files
BuildTerms == UNION { Range(tokenize_lines(body_lines(c))) : c \in Contents } \ {<<>>}

\* the token loop over toks for the document d, from the table T and the
\* seen set S
RECURSIVE IndexedTokens(_, _, _, _, _)
IndexedTokens(toks, T, S, d, sl) ==
    IF toks = <<>> THEN T
    ELSE IF Head(toks) = <<>> THEN IndexedTokens(Tail(toks), T, S, d, sl)
    ELSE LET r  == tt_get_or_add(T, Head(toks), sl[Head(toks)])
             si == seen_insert(S, r.e, r.tt.ents[r.e].ph)
             T2 == IF si.ok
                       THEN [r.tt EXCEPT !.ents[r.e].postings = pl_push(@, d),
                                         !.ents[r.e].df = @ + 1]
                       ELSE r.tt
         IN  IndexedTokens(Tail(toks), T2, si.slots, d, sl)

\* the file loop over fs, from the table T and the lines D of docs.tsv
RECURSIVE IndexedFiles(_, _, _, _)
IndexedFiles(fs, T, D, sl) ==
    IF fs = <<>> THEN [tt |-> T, docs |-> D]
    ELSE LET f == Head(fs)
         IN  IndexedFiles(Tail(fs),
                          IndexedTokens(tokenize_lines(body_lines(f.lines)), T,
                                        seen_reset(Pow2(SeenBits)), docid_of(f.path), sl),
                          Append(D, docs_line(f)),
                          sl)

BuildOf(fs, sl) == IndexedFiles(fs, tt_init(Pow2(TableBits)), <<>>, sl)

\* the files of a list that open
Openable(fs) == SelectSeq(fs, LAMBDA f : f.ok)

\* build_index as a whole, for the corpus c, the limit and the slots sl: the
\* three index files (the corpus has a file to collect)
build_index(c, limit, sl) ==
    LET all == collect_text_files(c)
        fs  == IF limit # 0 /\ limit < Len(all) THEN SubSeq(all, 1, limit) ELSE all
        b   == BuildOf(Openable(fs), sl)
        arr == qsort_entries(b.tt.ents, collect_entries(b.tt, 0))
        out == write_index(b.tt.ents, arr, 0, 0, [terms |-> <<>>, postings |-> <<>>])
    IN  [docs |-> b.docs, terms |-> out.terms, postings |-> out.postings]

(***************************************************************************)
(* bool_search main: the index is loaded, then either the --query argument *)
(* is handled, or the lines of standard input one after the other.         *)
(***************************************************************************)
\* terms.tsv and postings.bin in the builder's format for the terms a and b
\* with the posting lists A and B
hand_index(A, B) ==
    write_index(<< [term |-> <<97>>, postings |-> A], [term |-> <<98>>, postings |-> B] >>,
                <<1, 2>>, 0, 0, [terms |-> <<>>, postings |-> <<>>])

\* "ab \t 1 \t 0": a line of terms.tsv with three fields
short_terms_line == <<97, 98, 9, 49, 9, 48>>

\* the lines of standard input over an index that build has written:
\* "-a or B" and "a"
BuiltQueries == { <<45, 97, 32, 111, 114, 32, 66>>, <<97>> }

\* The index files on disk.  Either they are written by hand: docs.tsv names
\* the docids from..MaxDoc; terms.tsv has a and b and, with short, a
\* three-field line between them; then either a --query argument, or lines
\* on standard input.  Or bool_index build has written them for a corpus
\* (which is still on disk), and one line is on standard input.
InitMain ==
    /\ \/ /\ \E from \in 1..2, A \in AscLists, B \in AscLists, short \in BOOLEAN :
                LET out == hand_index(A, B)
                    U   == [i \in 1..(MaxDoc + 1 - from) |-> from + i - 1]
                IN  /\ docs_tsv = Reverse([i \in 1..Len(U) |-> hand_docs_line(U[i])])
                    /\ terms_tsv = IF short
                                       THEN <<out.terms[1], short_terms_line, out.terms[2]>>
                                       ELSE out.terms
                    /\ postings_bin = out.postings
                    /\ \/ /\ argq \in ArgQueries
                          /\ stdin = <<>>
                          /\ topn = 20
                          /\ ~short
                       \/ /\ argq = <<>>
                          /\ stdin \in SeqsUpTo(StdinLines, MaxLines)
                          /\ topn \in {1, 20}
                          /\ B = <<MaxDoc>>
          /\ disk = {}
       \/ \E c \in Corpora, limit \in 0..MaxLimit,
               sl \in [BuildTerms -> 0..(Pow2(SeenBits) - 1)] :
             /\ collect_text_files(c) # <<>>
             /\ \E b \in {build_index(c, limit, sl)} :
                    /\ docs_tsv = b.docs
                    /\ terms_tsv = b.terms
                    /\ postings_bin = b.postings
             /\ disk = c
             /\ argq = <<>>
             /\ stdin \in { <<l>> : l \in BuiltQueries }
             /\ topn \in {1, 20}
    /\ nread = 0 /\ stdout = <<>> /\ exit_code = -1
    /\ pc = "built"
    /\ BuildIdle
    /\ SearchIdle
    /\ OpsIdle
    /\ TokIdle
    /\ StemIdle

\* handle_one for the --query argument, then return 0; die ends the process
\* with exit code 2 before anything of the query is printed
HandleArg ==
    /\ pc = "ready"
    /\ argq # <<>>
    /\ \E r \in {run_query(ix, argq)} :
           IF r.ok
               THEN /\ q' = r.ast
                    /\ res' = r.r
                    /\ stdout' = stdout \o print_results(ix, r.r, topn)
                    /\ exit_code' = 0
               ELSE /\ exit_code' = 2
                    /\ UNCHANGED <<q, res, stdout>>
    /\ pc' = "exit"
    /\ UNCHANGED <<disk, buildVars, indexFiles, ix, opsVars, argq, topn, stdin, nread,
                   tokVars, stemVars>>

\* one turn of the getline loop: a line that starts with # is passed over,
\* an empty line gives only the separator, any other line is run as a query
\* and its results and the separator printed; die ends the process
ReadLine ==
    /\ pc = "ready"
    /\ argq = <<>>
    /\ nread < Len(stdin)
    /\ nread' = nread + 1
    /\ LET l == stdin[nread + 1]
       IN  IF l # <<>> /\ l[1] = 35
               THEN UNCHANGED <<pc, q, res, stdout, exit_code>>
           ELSE IF l = <<>>
               THEN /\ stdout' = Append(stdout, <<45, 45, 45, 45>>)
                    /\ UNCHANGED <<pc, q, res, exit_code>>
           ELSE \E r \in {run_query(ix, l)} :
                    IF r.ok
                        THEN /\ q' = r.ast
                             /\ res' = r.r
                             /\ stdout' = (stdout \o print_results(ix, r.r, topn))
                                              \o << <<45, 45, 45, 45>> >>
                             /\ UNCHANGED <<pc, exit_code>>
                        ELSE /\ exit_code' = 2
                             /\ pc' = "exit"
                             /\ UNCHANGED <<q, res, stdout>>
    /\ UNCHANGED <<disk, buildVars, indexFiles, ix, opsVars, argq, topn, stdin,
                   tokVars, stemVars>>

\* end of standard input: return 0
EndOfInput ==
    /\ pc = "ready"
    /\ argq = <<>>
    /\ nread >= Len(stdin)
    /\ exit_code' = 0
    /\ pc' = "exit"
    /\ UNCHANGED <<disk, buildVars, indexFiles, searchVars, opsVars, argq, topn, stdin,
                   nread, stdout, tokVars, stemVars>>

NextMain ==
    \/ Load
    \/ HandleArg
    \/ ReadLine
    \/ EndOfInput

SpecMain == InitMain /\ [][NextMain]_vars

(***************************************************************************)
(* tokenize: one line is tokenized; then the tokens, joined by blanks, are *)
(* given to the tokenizer as a line again; then the line is tokenized as   *)
(* the index builder tokenizes the lines of a body.                        *)
(***************************************************************************)
InitTok ==
    /\ tok_line \in TokLines
    /\ tok_out = <<>> /\ tok_joined = <<>> /\ tok_again = <<>> /\ tok_bytes = <<>>
    /\ pc = "line"
    /\ disk = {}
    /\ BuildIdle
    /\ docs_tsv = <<>> /\ terms_tsv = <<>> /\ postings_bin = <<>>
    /\ SearchIdle
    /\ OpsIdle
    /\ MainIdle
    /\ StemIdle

Tokenize ==
    /\ pc = "line"
    /\ tok_out' = tokenize_line(tok_line)
    /\ pc' = "tokenized"
    /\ UNCHANGED <<disk, buildVars, indexFiles, searchVars, opsVars, mainVars, stemVars,
                   tok_line, tok_joined, tok_again, tok_bytes>>

Retokenize ==
    /\ pc = "tokenized"
    /\ tok_joined' = join_tokens(tok_out)
    /\ tok_again' = tokenize_line(join_tokens(tok_out))
    /\ pc' = "retokenized"
    /\ UNCHANGED <<disk, buildVars, indexFiles, searchVars, opsVars, mainVars, stemVars,
                   tok_line, tok_out, tok_bytes>>

\* the line is given to tokenize_line of bool_index as a line of a body
TokenizeBytes ==
    /\ pc = "retokenized"
    /\ tok_bytes' = bool_index_tokenize_line(tok_line)
    /\ pc' = "bytes"
    /\ UNCHANGED <<disk, buildVars, indexFiles, searchVars, opsVars, mainVars, stemVars,
                   tok_line, tok_out, tok_joined, tok_again>>

NextTok ==
    \/ Tokenize
    \/ Retokenize
    \/ TokenizeBytes

SpecTok == InitTok /\ [][NextTok]_vars

(***************************************************************************)
(* stem: one token is read and its stem written; then that stem is given   *)
(* to the stemmer as a token again.                                        *)
(***************************************************************************)
InitStem ==
    /\ \/ stem_lang = "en" /\ stem_word \in EnWords
       \/ stem_lang = "ru" /\ stem_word \in RuWords
       \/ stem_lang = "auto" /\ stem_word \in NamedEnWords \cup RuWords
    /\ stem_out = <<>> /\ stem_again = <<>>
    /\ pc = "word"
    /\ disk = {}
    /\ BuildIdle
    /\ docs_tsv = <<>> /\ terms_tsv = <<>> /\ postings_bin = <<>>
    /\ SearchIdle
    /\ OpsIdle
    /\ MainIdle
    /\ TokIdle

StemLine ==
    /\ pc = "word"
    /\ stem_out' = stem_line(stem_lang, stem_word)
    /\ pc' = "stemmed"
    /\ UNCHANGED <<disk, buildVars, indexFiles, searchVars, opsVars, mainVars, tokVars,
                   stem_lang, stem_word, stem_again>>

StemAgain ==
    /\ pc = "stemmed"
    /\ stem_again' = stem_line(stem_lang, stem_out)
    /\ pc' = "restemmed"
    /\ UNCHANGED <<disk, buildVars, indexFiles, searchVars, opsVars, mainVars, tokVars,
                   stem_lang, stem_word, stem_out>>

NextStem ==
    \/ StemLine
    \/ StemAgain

SpecStem == InitStem /\ [][NextStem]_vars

(***************************************************************************)
(* The set operations on their own, over all strictly ascending lists.     *)
(***************************************************************************)
InitOps ==
    /\ opin \in AscLists \X AscLists \X AscLists
    /\ opout = <<>>
    /\ pc = "ops"
    /\ disk = {}
    /\ BuildIdle
    /\ docs_tsv = <<>> /\ terms_tsv = <<>> /\ postings_bin = <<>>
    /\ SearchIdle
    /\ ToolsIdle

ApplyOps ==
    /\ pc = "ops"
    /\ opout = <<>>
    /\ LET A == opin[1]
           B == opin[2]
           C == opin[3]
       IN  opout' = [and_ab  |-> op_and(A, B),
                     and_ba  |-> op_and(B, A),
                     or_ab   |-> op_or(A, B),
                     or_ba   |-> op_or(B, A),
                     or_ab_c |-> op_or(op_or(A, B), C),
                     or_a_bc |-> op_or(A, op_or(B, C))]
    /\ UNCHANGED <<disk, pc, buildVars, indexFiles, searchVars, opin, toolVars>>

NextOps == ApplyOps

SpecOps == InitOps /\ [][NextOps]_vars

(***************************************************************************)
(* Vocabulary of the properties.                                           *)
(***************************************************************************)

StrictlyAscending(a) == \A i \in 1..(Len(a) - 1) : a[i] < a[i + 1]

\* x before y in the order of byte strings: at the first difference the
\* smaller byte, or x a proper prefix of y
ByteLess(x, y) ==
    \E k \in 0..Min(Len(x), Len(y)) :
        /\ \A i \in 1..k : x[i] = y[i]
        /\ \/ k = Len(x) /\ k < Len(y)
           \/ k < Len(x) /\ k < Len(y) /\ x[k + 1] < y[k + 1]

\* bool_index build has returned
BuildDone == pc \in {"built", "ready", "answered"}

\* the index files as the reader sees them, before any directory is loaded
FileIndex ==
    LET d == load_dict(terms_tsv)
    IN  [term_pool |-> d.term_pool, dict |-> d.dict, postings |-> postings_bin,
         docs_sorted |-> <<>>, universe |-> <<>>]

\* the terms of the dictionary on disk, in line order
DictTerms == LET fx == FileIndex IN [k \in 1..Len(fx.dict) |-> dict_term(fx, fx.dict[k])]

\* the records of docs.tsv and the path field of a docs.tsv line
DirRecords == read_docs(docs_tsv)
DirDocids == { DirRecords[i].docid : i \in 1..Len(DirRecords) }
dir_path(line) == substr_from(line, tab_positions(line, 0, 4)[4] + 1)

\* the files that build opened: those with a record in docs.tsv
Opened == { f \in disk : \E i \in 1..Len(docs_tsv) : dir_path(docs_tsv[i]) = f.path }

\* the terms of the body of a file
BodyTerms(f) == Range(tokenize_lines(body_lines(f.lines)))

\* the docids of the opened documents whose body has the term t
DocidsWith(t) == { docid_of(f.path) : f \in { g \in Opened : t \in BodyTerms(g) } }

(***************************************************************************)
(* C1.  After build, for every line of terms.tsv, the post_len bytes of    *)
(* postings.bin at post_off are a strictly ascending array of exactly df   *)
(* docids, and post_len = 4 * df; also when files share a docid.           *)
(***************************************************************************)
C1_PostingsOnDisk ==
    pc = "built" =>
        LET fx == FileIndex IN
        /\ Len(fx.dict) = Len(terms_tsv)
        /\ \A k \in 1..Len(fx.dict) :
              LET e == fx.dict[k]
                  a == read_u32s(postings_bin, e.post_off, e.post_len)
              IN  /\ e.post_len = 4 * e.df
                  /\ e.post_off + e.post_len <= Len(postings_bin)
                  /\ Len(a) = e.df
                  /\ StrictlyAscending(a)

\* two opened files had the same docid and share a term, whose list was
\* compacted to one docid
C1_Witness ==
    /\ pc = "built"
    /\ \E f, g \in Opened :
          /\ f # g
          /\ docid_of(f.path) = docid_of(g.path)
          /\ \E t \in BodyTerms(f) \cap BodyTerms(g) :
                load_postings(FileIndex, t) = <<docid_of(f.path)>>

(***************************************************************************)
(* C2.  After build, the posting list of every token of every opened       *)
(* document has the document's docid, every docid of a posting list is     *)
(* that of an opened document with the term in its body, and df is the     *)
(* number of those docids; for any number of distinct terms per document.  *)
(* The code loses postings once a document has filled the seen set.        *)
(***************************************************************************)
C2_PostingsMatchBodies ==
    pc = "built" =>
        LET fx == FileIndex IN
        /\ \A f \in Opened : \A t \in BodyTerms(f) :
              docid_of(f.path) \in Range(load_postings(fx, t))
        /\ \A k \in 1..Len(fx.dict) :
              LET t == dict_term(fx, fx.dict[k])
              IN  /\ Range(load_postings(fx, t)) \subseteq DocidsWith(t)
                  /\ fx.dict[k].df = Cardinality(DocidsWith(t))

(***************************************************************************)
(* C3.  After build, no two records of docs.tsv carry the same docid.      *)
(* The code gives files with the same stem digits the same docid.          *)
(***************************************************************************)
C3_DirectoryDocidsUnique ==
    BuildDone =>
        \A i, j \in 1..Len(DirRecords) :
            i # j => DirRecords[i].docid # DirRecords[j].docid

(***************************************************************************)
(* C4.  An English and a Russian document of one corpus never share a      *)
(* docid.  In the code /enwiki/ 30001 and /ruwiki/ 1 are both 30001.       *)
(***************************************************************************)
C4_LanguagesDisjoint ==
    BuildDone =>
        \A i, j \in 1..Len(DirRecords) :
            (DirRecords[i].lang = <<101, 110>> /\ DirRecords[j].lang = <<114, 117>>)
                => DirRecords[i].docid # DirRecords[j].docid

(***************************************************************************)
(* C5.  Every docid of a posting list has a record in docs.tsv, at every   *)
(* step of the build (the record is written before the first posting of    *)
(* the document) and in the files written; a file that fails to open has   *)
(* no record, and every docid posted is that of a file that was opened.    *)
(***************************************************************************)
\* the docids of all posting lists, in the table and in postings.bin
PostedDocids ==
    UNION { Range(tt.ents[e].postings) : e \in 1..Len(tt.ents) }
        \cup Range(read_u32s(postings_bin, 0, Len(postings_bin)))

C5_PostingsInDirectory ==
    /\ PostedDocids \subseteq DirDocids
    /\ PostedDocids \subseteq { docid_of(f.path) : f \in Opened }
    /\ \A f \in disk : ~f.ok => f \notin Opened

\* the first file was skipped as unopenable and the second has a posting
C5_Witness ==
    /\ pc = "tokens"
    /\ fi = 1
    /\ ~files[1].ok
    /\ \E e \in 1..Len(tt.ents) : docid \in Range(tt.ents[e].postings)

(***************************************************************************)
(* C6.  The lines of terms.tsv are strictly ascending by term bytes, no    *)
(* term twice (also with terms in one hash bucket), and the reader's       *)
(* binary search finds a term exactly when the dictionary has it.          *)
(***************************************************************************)
\* terms looked up: a, ab, abc, b, б, B, zz and the empty term
ProbeTerms == { <<97>>, <<97, 98>>, <<97, 98, 99>>, <<98>>, <<208, 177>>, <<66>>, <<122, 122>>, <<>> }

C6_DictionarySorted ==
    pc = "built" =>
        LET fx == FileIndex
            ts == DictTerms
        IN  /\ \A k \in 1..(Len(ts) - 1) : ByteLess(ts[k], ts[k + 1])
            /\ \A t \in ProbeTerms \cup Range(ts) :
                  LET pos == binsearch_term(fx, t)
                  IN  /\ (pos >= 0) <=> (t \in Range(ts))
                      /\ pos >= 0 => ts[pos + 1] = t

\* the dictionary has ab and б, which share a bucket, and a term besides
C6_Witness ==
    /\ pc = "built"
    /\ {<<97, 98>>, <<208, 177>>} \subseteq Range(DictTerms)
    /\ fnv1a64(<<97, 98>>) % Pow2(TableBits) = fnv1a64(<<208, 177>>) % Pow2(TableBits)
    /\ binsearch_term(FileIndex, <<208, 177>>) = Len(DictTerms) - 1

(***************************************************************************)
(* C7.  Over an index with strictly ascending posting lists and universe,  *)
(* the list eval returns at every node of a query is strictly ascending.   *)
(***************************************************************************)
RECURSIVE SubNodes(_)
SubNodes(n) ==
    {n} \cup (IF n.t = "NOT" THEN SubNodes(n.a)
              ELSE IF n.t \in {"AND", "OR"} THEN SubNodes(n.a) \cup SubNodes(n.b)
              ELSE {})

C7_EvalAscending ==
    pc = "answered" =>
        /\ StrictlyAscending(res)
        /\ \A m \in SubNodes(q) : StrictlyAscending(eval(ix, m))

\* a union of two complements with at least two docids
C7_Witness ==
    /\ pc = "answered"
    /\ q.t = "OR" /\ q.a.t = "NOT" /\ q.b.t = "NOT"
    /\ eval(ix, q.a) # eval(ix, q.b)
    /\ eval(ix, q.a) # <<>> /\ eval(ix, q.b) # <<>>
    /\ Len(res) >= 2

(***************************************************************************)
(* C8.  Over an index made by build, eval(Q) and eval(NOT Q) together are  *)
(* the universe, the sorted docids of docs.tsv, and have no docid in       *)
(* common.                                                                 *)
(***************************************************************************)
C8_Complement ==
    pc = "answered" =>
        LET nq == eval(ix, NotNode(q))
        IN  /\ ix.universe = AscSeq(DirDocids)
            /\ Range(res) \cup Range(nq) = Range(ix.universe)
            /\ Range(res) \cap Range(nq) = {}
            /\ op_or(res, nq) = ix.universe
            /\ op_and(res, nq) = <<>>

\* a query that some documents match and others do not
C8_Witness ==
    /\ pc = "answered"
    /\ res # <<>>
    /\ eval(ix, NotNode(q)) # <<>>
    /\ q.t \in {"AND", "OR"}

(***************************************************************************)
(* C9.  Over an index made by build, eval(NOT (A AND B)) and               *)
(* eval((NOT A) OR (NOT B)) are the same sequence.                         *)
(***************************************************************************)
C9_DeMorgan ==
    (pc = "answered" /\ q.t = "NOT" /\ q.a.t = "AND") =>
        res = eval(ix, OrNode(NotNode(q.a.a), NotNode(q.a.b)))

\* NOT (A AND B) where A and B have a document in common and one apart
C9_Witness ==
    /\ pc = "answered"
    /\ q.t = "NOT" /\ q.a.t = "AND"
    /\ eval(ix, q.a) # <<>>
    /\ res # <<>>
    /\ eval(ix, q.a.a) # eval(ix, q.a.b)

(***************************************************************************)
(* C10.  For strictly ascending lists A, B, C, empty ones too: op_and and  *)
(* op_or are commutative and op_or is associative, as sequences.           *)
(***************************************************************************)
C10_SetAlgebra ==
    (pc = "ops" /\ opout # <<>>) =>
        /\ opout.and_ab = opout.and_ba
        /\ opout.or_ab = opout.or_ba
        /\ opout.or_ab_c = opout.or_a_bc

\* three different lists that overlap, each operation adding docids
C10_Witness ==
    /\ pc = "ops" /\ opout # <<>>
    /\ opin[1] # opin[2] /\ opin[2] # opin[3] /\ opin[1] # opin[3]
    /\ opout.and_ab # <<>>
    /\ Len(opout.or_ab_c) > Len(opout.or_ab)
    /\ Len(opout.or_ab) > Len(opin[1])

(***************************************************************************)
(* C11.  NOT binds tighter than AND and AND tighter than OR, AND and OR    *)
(* are left-associative and parentheses override: for all terms x, y, z    *)
(* the query "x OR y AND z" gives post(x) + (post(y) & post(z)),           *)
(* "NOT x AND y" gives (U - post(x)) & post(y), and "(x OR y) AND NOT z"   *)
(* gives (post(x) + post(y)) & (U - post(z)), as ascending lists.          *)
(***************************************************************************)
\* the docids of the posting list of the term t, and those of the universe
Post(t) == Range(load_postings(ix, lowercase_inplace(t)))
Univ == Range(ix.universe)

\* the --query argument was answered with the ascending list of the set S
\* from the tree n
AnsweredAs(S, n) == exit_code = 0 /\ res = AscSeq(S) /\ q = n

C11_Precedence ==
    (pc = "exit" /\ argq # <<>>) =>
        \A x, y, z \in QueryTerms :
            /\ argq = QOrAnd(x, y, z) =>
                  AnsweredAs(Post(x) \cup (Post(y) \cap Post(z)),
                             OrNode(TermNode(x), AndNode(TermNode(y), TermNode(z))))
            /\ argq = QNotAnd(x, y) =>
                  AnsweredAs((Univ \ Post(x)) \cap Post(y),
                             AndNode(NotNode(TermNode(x)), TermNode(y)))
            /\ argq = QParen(x, y, z) =>
                  AnsweredAs((Post(x) \cup Post(y)) \cap (Univ \ Post(z)),
                             AndNode(OrNode(TermNode(x), TermNode(y)), NotNode(TermNode(z))))
            /\ argq = QAndAnd(x, y, z) =>
                  AnsweredAs((Post(x) \cap Post(y)) \cap Post(z),
                             AndNode(AndNode(TermNode(x), TermNode(y)), TermNode(z)))
            /\ argq = QOrOr(x, y, z) =>
                  AnsweredAs((Post(x) \cup Post(y)) \cup Post(z),
                             OrNode(OrNode(TermNode(x), TermNode(y)), TermNode(z)))

\* "a OR B AND zz" was answered with the documents of a, where taking OR
\* before AND would have given none
C11_Witness ==
    /\ pc = "exit"
    /\ argq = QOrAnd(<<97>>, <<66>>, <<122, 122>>)
    /\ res # <<>>
    /\ Post(<<66>>) # {}
    /\ (Post(<<97>>) \cup Post(<<66>>)) \cap Post(<<122, 122>>) = {}

(***************************************************************************)
(* C12.  A document that build opened and whose body yields no token has   *)
(* its docid in the universe and in eval(NOT t) for every term t.  In the  *)
(* code another document can have the same docid (C3) and contain t: the   *)
(* docid is then in the posting list of t and not in eval(NOT t).          *)
(***************************************************************************)
\* the docids of the opened documents without any token
EmptyDocids == { docid_of(f.path) : f \in { g \in Opened : BodyTerms(g) = {} } }

C12_EmptyDocInNot ==
    (pc = "answered" /\ q.t = "NOT" /\ q.a.t = "TERM") =>
        /\ EmptyDocids \subseteq Range(ix.universe)
        /\ EmptyDocids \subseteq Range(res)

(***************************************************************************)
(* C13.  For every line, also with malformed or overlong UTF-8, capitals   *)
(* and the connectors, the tokens of the line joined by single blanks give *)
(* exactly the same tokens when they are tokenized again.                  *)
(***************************************************************************)
C13_RoundTrip == pc = "retokenized" => tok_again = tok_out

\* the overlong P, a hyphen and the Cyrillic capital are one token p-а, which
\* is not the text of the line, and comes out again as p-а
C13_Witness ==
    /\ pc = "retokenized"
    /\ tok_line = <<193, 144, 45, 208, 144>>
    /\ tok_out = << <<112, 45, 208, 176>> >>
    /\ tok_joined # tok_line

(***************************************************************************)
(* C14.  No token is empty; a token begins and ends with an alphanumeric   *)
(* codepoint that is case-folded; inside a token a hyphen or + is followed *)
(* by an alphanumeric codepoint, a . stands between two ASCII digits, an   *)
(* apostrophe is followed by a letter, and there is nothing else; the      *)
(* example line gives hello, world, 3.14, and, don't, stop-now.            *)
(***************************************************************************)
\* the codepoints of a string
RECURSIVE codepoints(_, _)
codepoints(s, i) ==
    IF i >= Len(s) THEN <<>>
    ELSE LET d == decode_utf8_next(s, i) IN <<d.cp>> \o codepoints(s, d.i)

Folded(cp) == ~(cp >= 65 /\ cp <= 90) /\ ~(cp >= 1040 /\ cp <= 1071) /\ cp # 1025

WellFormedToken(t) ==
    LET c == codepoints(t, 0)
        n == Len(c)
    IN  /\ n >= 1
        /\ is_alnum(c[1]) /\ is_alnum(c[n])
        /\ \A k \in 1..n :
              \/ is_alnum(c[k]) /\ Folded(c[k])
              \/ k > 1 /\ k < n /\ (is_hyphen(c[k]) \/ c[k] = 43) /\ is_alnum(c[k + 1])
              \/ k > 1 /\ k < n /\ c[k] = 46
                       /\ is_ascii_digit(c[k - 1]) /\ is_ascii_digit(c[k + 1])
              \/ k > 1 /\ k < n /\ is_apostrophe(c[k]) /\ is_letter(c[k + 1])

ExampleTokens ==
    << <<104, 101, 108, 108, 111>>, <<119, 111, 114, 108, 100>>, <<51, 46, 49, 52>>,
       <<97, 110, 100>>, <<100, 111, 110, 39, 116>>, <<115, 116, 111, 112, 45, 110, 111, 119>> >>

C14_TokenShape ==
    pc \in {"tokenized", "retokenized"} =>
        /\ \A k \in 1..Len(tok_out) : tok_out[k] # <<>> /\ WellFormedToken(tok_out[k])
        /\ tok_line = ExampleLine => tok_out = ExampleTokens

\* the example line is tokenized: a capital is folded, the comma, the blanks
\* and the ! are dropped, a dot, an apostrophe and a hyphen are kept
C14_Witness ==
    /\ pc = "tokenized"
    /\ tok_line = ExampleLine
    /\ Len(tok_out) = 6
    /\ \E k \in 1..Len(tok_out) : 45 \in Range(tok_out[k])

(***************************************************************************)
(* C15.  The English stemmer is idempotent: the stem of a stem is that     *)
(* stem.  In the code cursed gives curs and curs gives cur; eatt gives eat *)
(* and eat gives eate.                                                     *)
(***************************************************************************)
C15_StemEnIdempotent ==
    (pc = "restemmed" /\ stem_lang = "en") => stem_again = stem_out

(***************************************************************************)
(* C16.  stem_en maps cats to cat: a token of more than 3 characters that  *)
(* ends in a single s after a prefix with a vowel loses exactly that s     *)
(* when the prefix is one the later steps leave alone.  In the code the    *)
(* tail rewrite makes cat into cate.                                       *)
(***************************************************************************)
\* a vowel a e i o u, or a y that is not the first character
ContainsVowel(p) ==
    \E k \in 1..Len(p) : p[k] \in {97, 101, 105, 111, 117} \/ (p[k] = 121 /\ k > 1)

\* the last n characters of w, and w without them
LastOf(w, n) == SubSeq(w, Len(w) - n + 1, Len(w))
Without(w, n) == SubSeq(w, 1, Len(w) - n)

\* a prefix the steps after the first leave as it is, as the cat of cats:
\* no ed, ing or y at its end and no doubled last letter
PlainPrefix(p) ==
    /\ Len(p) >= 3
    /\ LastOf(p, 2) # <<101, 100>>
    /\ LastOf(p, 3) # <<105, 110, 103>>
    /\ p[Len(p)] # 121
    /\ p[Len(p)] # p[Len(p) - 1]

C16_CatsToCat ==
    (pc \in {"stemmed", "restemmed"} /\ stem_lang = "en") =>
        LET w == stem_word
        IN  /\ w = <<99, 97, 116, 115>> => stem_out = <<99, 97, 116>>
            /\ ( /\ Len(w) > 3 /\ w[Len(w)] = 115 /\ w[Len(w) - 1] \notin {115, 101}
                 /\ ContainsVowel(Without(w, 1)) /\ PlainPrefix(Without(w, 1)) )
                    => stem_out = Without(w, 1)

(***************************************************************************)
(* C17.  stem_en maps running to run, happily to happili, ponies to poni,  *)
(* caresses to caress, agreed to agree and leaves feed; ing and ed go only *)
(* after a prefix with a vowel, the d of a final eed only in a token of    *)
(* more than 4, a final doubled consonant other than l, s, z becomes one,  *)
(* and a final y after a prefix with a vowel becomes i.                    *)
(***************************************************************************)
IsConsonant(c) == c >= 97 /\ c <= 122 /\ c \notin {97, 101, 105, 111, 117, 121}

C17_StemEnRules ==
    (pc \in {"stemmed", "restemmed"} /\ stem_lang = "en") =>
        LET w == stem_word
            n == Len(stem_word)
            r == stem_out
        IN  /\ w = <<114, 117, 110, 110, 105, 110, 103>> => r = <<114, 117, 110>>
            /\ w = <<104, 97, 112, 112, 105, 108, 121>> => r = <<104, 97, 112, 112, 105, 108, 105>>
            /\ w = <<112, 111, 110, 105, 101, 115>> => r = <<112, 111, 110, 105>>
            /\ w = <<99, 97, 114, 101, 115, 115, 101, 115>> => r = <<99, 97, 114, 101, 115, 115>>
            /\ w = <<97, 103, 114, 101, 101, 100>> => r = <<97, 103, 114, 101, 101>>
            /\ w = <<102, 101, 101, 100>> => r = w
            /\ (n >= 3 /\ LastOf(w, 3) = <<105, 110, 103>> /\ r # w)
                  => ContainsVowel(Without(w, 3))
            /\ (n >= 3 /\ LastOf(w, 2) = <<101, 100>> /\ LastOf(w, 3) # <<101, 101, 100>>
                       /\ r # w)
                  => ContainsVowel(Without(w, 2))
            /\ (n >= 3 /\ LastOf(w, 3) = <<101, 101, 100>>)
                  => r = (IF n > 4 THEN Without(w, 1) ELSE w)
            /\ (n >= 3 /\ w[n] = w[n - 1] /\ IsConsonant(w[n]))
                  => r = (IF w[n] \in {108, 115, 122} THEN w ELSE Without(w, 1))
            /\ (n >= 3 /\ w[n] = 121)
                  => r = (IF ContainsVowel(Without(w, 1)) THEN Append(Without(w, 1), 105) ELSE w)

\* running has been stemmed: ing dropped after runn, then nn made n
C17_Witness ==
    /\ pc = "stemmed"
    /\ stem_lang = "en"
    /\ stem_word = <<114, 117, 110, 110, 105, 110, 103>>
    /\ stem_out = <<114, 117, 110>>

(***************************************************************************)
(* C18.  stem_ru maps красивого to красив, бежать to беж, столами to стол  *)
(* and книга to книг: after the reflexive suffix the adjective list is     *)
(* tried first (and one noun suffix after a hit), then the verbs, then the *)
(* nouns: домовой gives дом (ой, then ов), учиться gives уч (ся, then      *)
(* ить).                                                                   *)
(***************************************************************************)
C18_StemRuOrder ==
    (pc \in {"stemmed", "restemmed"} /\ stem_lang \in {"ru", "auto"}) =>
        LET w == stem_word
            r == stem_out
        IN  /\ w = <<208, 186, 209, 128, 208, 176, 209, 129, 208, 184, 208, 178, 208, 190, 208, 179, 208, 190>>
                  => r = <<208, 186, 209, 128, 208, 176, 209, 129, 208, 184, 208, 178>>
            /\ w = <<208, 177, 208, 181, 208, 182, 208, 176, 209, 130, 209, 140>>
                  => r = <<208, 177, 208, 181, 208, 182>>
            /\ w = <<209, 129, 209, 130, 208, 190, 208, 187, 208, 176, 208, 188, 208, 184>>
                  => r = <<209, 129, 209, 130, 208, 190, 208, 187>>
            /\ w = <<208, 186, 208, 189, 208, 184, 208, 179, 208, 176>> => r = <<208, 186, 208, 189, 208, 184, 208, 179>>
            /\ w = <<208, 180, 208, 190, 208, 188, 208, 190, 208, 178, 208, 190, 208, 185>>
                  => r = <<208, 180, 208, 190, 208, 188>>
            /\ w = <<209, 131, 209, 135, 208, 184, 209, 130, 209, 140, 209, 129, 209, 143>>
                  => r = <<209, 131, 209, 135>>

\* бежать has been stemmed by the dispatch on its Cyrillic bytes: the verb
\* suffix ать went, not the noun suffix ь
C18_Witness ==
    /\ pc = "stemmed"
    /\ stem_lang = "auto"
    /\ stem_word = <<208, 177, 208, 181, 208, 182, 208, 176, 209, 130, 209, 140>>
    /\ stem_out = <<208, 177, 208, 181, 208, 182>>

(***************************************************************************)
(* C19 (as stated): a terms.tsv line with fewer than four tab-separated    *)
(* fields is fatal at load: the process ends with an error before any      *)
(* query is evaluated, and no dictionary without the line is loaded.       *)
(***************************************************************************)
\* terms.tsv has the three-field line
HasShortLine == \E i \in 1..Len(terms_tsv) : terms_tsv[i] = short_terms_line

RECURSIVE DerivesExpr(_, _, _)
RECURSIVE DerivesAnd(_, _, _)
RECURSIVE DerivesUnary(_, _, _)

DerivesPrimary(ts, i, j) ==
    \/ i = j /\ ts[i] = "TERM"
    \/ i + 1 < j /\ ts[i] = "LP" /\ ts[j] = "RP" /\ DerivesExpr(ts, i + 1, j - 1)

DerivesUnary(ts, i, j) ==
    \/ i < j /\ ts[i] = "NOT" /\ DerivesUnary(ts, i + 1, j)
    \/ i <= j /\ DerivesPrimary(ts, i, j)

DerivesAnd(ts, i, j) ==
    \/ i <= j /\ DerivesUnary(ts, i, j)
    \/ \E k \in (i + 1)..(j - 1) :
           ts[k] = "AND" /\ DerivesAnd(ts, i, k - 1) /\ DerivesUnary(ts, k + 1, j)

DerivesExpr(ts, i, j) ==
    \/ i <= j /\ DerivesAnd(ts, i, j)
    \/ \E k \in (i + 1)..(j - 1) :
           ts[k] = "OR" /\ DerivesExpr(ts, i, k - 1) /\ DerivesAnd(ts, k + 1, j)

\* the kinds of the tokens of a query string, END left out
Kinds(qs) == LET toks == lex(qs) IN [i \in 1..(Len(toks) - 1) |-> toks[i].t]

\* the grammar derives the query string
GrammarDerives(qs) == LET ts == Kinds(qs) IN DerivesExpr(ts, 1, Len(ts))

\* a line of standard input that is a comment
IsComment(l) == l # <<>> /\ l[1] = 35

\* "----"
Separator == <<45, 45, 45, 45>>

\* what the first k lines of standard input print when each is answered
RECURSIVE Printed(_)
Printed(k) ==
    IF k = 0 THEN <<>>
    ELSE LET l == stdin[k]
         IN  Printed(k - 1) \o
                 (IF IsComment(l) THEN <<>>
                  ELSE IF l = <<>> THEN <<Separator>>
                  ELSE Append(print_results(ix, run_query(ix, l).r, topn), Separator))

\* the process ended with exit code 2 at line i of standard input: nothing
\* of that line was printed, no later line was read, and what the lines
\* before it print is on standard output
FatalAt(i) ==
    /\ pc = "exit"
    /\ exit_code = 2
    /\ nread = i
    /\ stdout = Printed(i - 1)

\* the process ended with exit code 2 at the --query argument, nothing printed
FatalArg == exit_code = 2 /\ stdout = <<>> /\ q = NoQuery

(***************************************************************************)
(* C20 (as stated): every query string that the grammar does not derive    *)
(* ends the process with exit code 2 before any result line of that query  *)
(* is printed; on standard input no later line is evaluated, and the       *)
(* results of the lines before it are printed in the order of the input.   *)
(***************************************************************************)
C20_EveryUnderivedFatal ==
    /\ (pc = "exit" /\ argq # <<>> /\ ~GrammarDerives(argq)) => FatalArg
    /\ \A i \in 1..nread :
          (~IsComment(stdin[i]) /\ ~GrammarDerives(stdin[i])) => FatalAt(i)

(***************************************************************************)
(* C20 (amended): every non-empty query string that the grammar does not   *)
(* derive ends the process with exit code 2 before any result line of that *)
(* query is printed; on standard input no later line is evaluated, and the *)
(* results of the lines before it are printed in the order of the input.   *)
(* (An empty line of standard input is not evaluated: only the separator   *)
(* is printed for it and the next line is read.)                           *)
(***************************************************************************)
C20_NonEmptyUnderivedFatal ==
    /\ (pc = "exit" /\ argq # <<>> /\ ~GrammarDerives(argq)) => FatalArg
    /\ \A i \in 1..nread :
          (stdin[i] # <<>> /\ ~IsComment(stdin[i]) /\ ~GrammarDerives(stdin[i]))
              => FatalAt(i)

\* standard input was "a" and then "a B": the documents of a and the
\* separator are printed, then the process ended with 2 at the second line
C20_Witness ==
    /\ stdin = << <<97>>, <<97, 32, 66>> >>
    /\ FatalAt(2)
    /\ Len(stdout) >= 2
    /\ stdout[Len(stdout)] = Separator
    /\ q = TermNode(<<97>>)

(***************************************************************************)
(* The slots of the build that ran: for every term the slot its entry has  *)
(* in tt.                                                                  *)
(***************************************************************************)
\* the seen-set slot of the entry of term in tt (0 when tt has no such entry)
SlotOf(term) ==
    LET e == IF tt.nb = 0 THEN 0
             ELSE chain_find(tt.ents, tt.buckets[fnv1a64(term) % tt.nb], term)
    IN  IF e = 0 THEN 0 ELSE tt.ents[e].ph

SlotsOfRun == [t \in BuildTerms |-> SlotOf(t)]

\* the file loop has ended (terms.tsv and postings.bin are written from tt next)
LoopDone == pc = "file" /\ fi >= Len(files)

\* the --limit in effect: the number of files kept when the list was cut
LimitInEffect ==
    IF Len(files) < Len(collect_text_files(disk)) THEN Len(files) ELSE 0

\* the files build would keep were the unopenable files not on disk
KeptWereAbsent ==
    LET all == collect_text_files({f \in disk : f.ok})
    IN  IF LimitInEffect # 0 /\ LimitInEffect < Len(all)
            THEN SubSeq(all, 1, LimitInEffect)
            ELSE all

(***************************************************************************)
(* C21 (as stated): a corpus file that cannot be opened is skipped and the *)
(* build goes on; it adds no record to docs.tsv and no docid to a posting  *)
(* list, and every later file in path order is indexed exactly as if the   *)
(* unopenable file were absent (not on disk).                              *)
(***************************************************************************)
C21_AsIfAbsent ==
    LoopDone =>
        /\ docs_tsv = BuildOf(KeptWereAbsent, SlotsOfRun).docs
        /\ tt = BuildOf(KeptWereAbsent, SlotsOfRun).tt

(***************************************************************************)
(* C21 (amended): a corpus file that cannot be opened is skipped and the   *)
(* build goes on; it adds no record to docs.tsv and no docid to a posting  *)
(* list, and every later file among the files kept for the build (the      *)
(* first L in path order under --limit L, the unopenable file counted) is  *)
(* indexed exactly as if the unopenable file were not among them.          *)
(***************************************************************************)
C21_SkippedAsIfNotListed ==
    pc = "file" =>
        LET b == BuildOf(Openable(SubSeq(files, 1, fi)), SlotsOfRun)
        IN  /\ docs_tsv = b.docs
            /\ tt = b.tt
            /\ \A k \in 1..fi : ~files[k].ok =>
                   \A i \in 1..Len(docs_tsv) : dir_path(docs_tsv[i]) # files[k].path

\* the first file of two was unopenable and skipped, the second was indexed:
\* it has its record and its docid is posted
C21_Witness ==
    /\ LoopDone
    /\ Len(files) = 2
    /\ ~files[1].ok
    /\ files[2].ok
    /\ Len(docs_tsv) = 1
    /\ \E e \in 1..Len(tt.ents) : docid_of(files[2].path) \in Range(tt.ents[e].postings)

(***************************************************************************)
(* C22.  print_results writes exactly min(n, top) lines for a result of n  *)
(* docids, the i-th line for the i-th smallest docid of the result, with   *)
(* the lang, title and url of a directory record with that docid, and with *)
(* ? in their places exactly when the directory has no record with that    *)
(* docid; over an index that build has written no line carries ?.          *)
(***************************************************************************)
\* the records of docs.tsv with the docid d
RecordsOf(d) == { i \in 1..Len(DirRecords) : DirRecords[i].docid = d }

\* l is the line of d with the fields of a directory record of d
KnownLine(l, d) ==
    \E i \in RecordsOf(d) :
        l = to_dec(d) \o <<9>> \o DirRecords[i].lang \o <<9>> \o DirRecords[i].title
                \o <<9>> \o DirRecords[i].url

\* l ends with \t?\t?\t?
HasPlaceholders(l) == Len(l) >= 6 /\ SubSeq(l, Len(l) - 5, Len(l)) = <<9, 63, 9, 63, 9, 63>>

\* l is the line of d with ? for lang, title and url
UnknownLine(l, d) == l = to_dec(d) \o <<9, 63, 9, 63, 9, 63>>

\* the index files were written by build (the corpus is on disk)
IndexFromBuild == disk # {}

\* ls are the lines of print_results for the result res under --top topn
ResultLines(ls) ==
    /\ Len(ls) = Min(Len(res), topn)
    /\ \A i \in 1..Len(ls) :
          LET d == AscSeq(Range(res))[i]
          IN  /\ RecordsOf(d) # {} => KnownLine(ls[i], d)
              /\ RecordsOf(d) = {} => UnknownLine(ls[i], d)
              /\ HasPlaceholders(ls[i]) <=> RecordsOf(d) = {}
              /\ IndexFromBuild => ~HasPlaceholders(ls[i])

\* the --query argument was answered
ArgAnswered == pc = "exit" /\ argq # <<>> /\ exit_code = 0

\* the line of standard input read last was answered as a query
LineAnswered ==
    /\ argq = <<>>
    /\ nread >= 1
    /\ stdin[nread] # <<>>
    /\ ~IsComment(stdin[nread])
    /\ exit_code # 2

C22_ResultLines ==
    /\ ArgAnswered => ResultLines(stdout)
    /\ LineAnswered =>
          LET m == Min(Len(res), topn)
              n == Len(stdout)
          IN  /\ n >= m + 1
              /\ stdout[n] = Separator
              /\ n = m + 1 \/ stdout[n - m - 1] = Separator
              /\ ResultLines(SubSeq(stdout, n - m, n - 1))

\* under --top 1 a result of two or more docids was printed as one line,
\* and that line has ? because docs.tsv has no record of its docid
C22_Witness ==
    /\ LineAnswered
    /\ topn = 1
    /\ Len(res) >= 2
    /\ RecordsOf(res[1]) = {}
    /\ Len(stdout) >= 2
    /\ UnknownLine(stdout[Len(stdout) - 1], res[1])

(***************************************************************************)
(* C23.  On every line made only of ASCII characters and well-formed       *)
(* Cyrillic letters (U+0410..U+044F, U+0401, U+0451) the tokenizer of the  *)
(* index builder emits the same tokens, in the same order, as the          *)
(* codepoint-level tokenizer.                                              *)
(***************************************************************************)
\* the two bytes at the 0-based position i encode one of the Cyrillic letters
IsCyrLetterAt(s, i) ==
    /\ i + 1 < Len(s)
    /\ \/ s[i + 1] = 208 /\ ((s[i + 2] >= 144 /\ s[i + 2] <= 191) \/ s[i + 2] = 129)
       \/ s[i + 1] = 209 /\ ((s[i + 2] >= 128 /\ s[i + 2] <= 143) \/ s[i + 2] = 145)

\* from the position i on, s is made of ASCII characters and those letters
RECURSIVE AsciiCyrFrom(_, _)
AsciiCyrFrom(s, i) ==
    IF i >= Len(s) THEN TRUE
    ELSE IF s[i + 1] < 128 THEN AsciiCyrFrom(s, i + 1)
    ELSE IsCyrLetterAt(s, i) /\ AsciiCyrFrom(s, i + 2)

AsciiCyrLine(s) == AsciiCyrFrom(s, 0)

C23_SameTokens == (pc = "bytes" /\ AsciiCyrLine(tok_line)) => tok_bytes = tok_out

(***************************************************************************)
(* C24.  At every start index inside a byte string decode_utf8_next gives  *)
(* a value in [0, 0x10FFFF] and consumes at least one byte; bytes that do  *)
(* not encode such a value (truncated, bad continuation, invalid lead      *)
(* byte, value above 0x10FFFF) give U+FFFD with exactly one byte consumed. *)
(***************************************************************************)
\* the number of bytes that the lead byte c0 announces, 0 if it is no lead byte
LeadLen(c0) ==
    IF c0 < 128 THEN 1
    ELSE IF c0 >= 192 /\ c0 <= 223 THEN 2
    ELSE IF c0 >= 224 /\ c0 <= 239 THEN 3
    ELSE IF c0 >= 240 /\ c0 <= 247 THEN 4
    ELSE 0

\* the payload bits of the n bytes at the 0-based position i
EncodedValue(s, i, n) ==
    IF n = 1 THEN s[i + 1]
    ELSE IF n = 2 THEN (s[i + 1] - 192) * 64 + (s[i + 2] - 128)
    ELSE IF n = 3 THEN (s[i + 1] - 224) * 4096 + (s[i + 2] - 128) * 64 + (s[i + 3] - 128)
    ELSE (s[i + 1] - 240) * 262144 + (s[i + 2] - 128) * 4096 + (s[i + 3] - 128) * 64
             + (s[i + 4] - 128)

\* at i there is a lead byte, followed by the continuation bytes it
\* announces, and their value is at most 0x10FFFF
EncodesValue(s, i) ==
    LET n == LeadLen(s[i + 1])
    IN  /\ n >= 1
        /\ i + n <= Len(s)
        /\ \A k \in 1..(n - 1) : s[i + 1 + k] >= 128 /\ s[i + 1 + k] <= 191
        /\ EncodedValue(s, i, n) <= 1114111

C24_DecodeScalar ==
    pc = "tokenized" =>
        \A i \in 0..(Len(tok_line) - 1) :
            LET d == decode_utf8_next(tok_line, i)
            IN  /\ d.ok
                /\ d.cp >= 0 /\ d.cp <= 1114111
                /\ d.i >= i + 1
                /\ ~EncodesValue(tok_line, i) => (d.cp = 65533 /\ d.i = i + 1)

(***************************************************************************)
(* C25.  The output of stem_ru is a byte prefix of its input and, when it  *)
(* differs from the input, has at least 4 bytes; each of the at most three *)
(* strips (reflexive, then adjective and noun, or verb, or noun) removes   *)
(* the first suffix of its list, in declared order, that the token ends    *)
(* with and that leaves at least 4 bytes, so a suffix listed after a       *)
(* shorter one that is its own ending (уют after ют) is never removed.     *)
(***************************************************************************)
IsPrefixOf(p, s) == Len(p) <= Len(s) /\ SubSeq(s, 1, Len(p)) = p

EndsIn(s, suf) == Len(suf) <= Len(s) /\ SubSeq(s, Len(s) - Len(suf) + 1, Len(s)) = suf

\* the token ends with the suffix and at least 4 bytes stay without it
Fits(tok, suf) == suf # <<>> /\ EndsIn(tok, suf) /\ Len(tok) - Len(suf) >= 4

\* the place in the list of the first suffix that fits, 0 if none does
FirstFit(tok, sufs) ==
    LET F == { i \in 1..Len(sufs) : Fits(tok, sufs[i]) }
    IN  IF F = {} THEN 0 ELSE CHOOSE i \in F : \A j \in F : i <= j

\* the token without the first suffix that fits
Stripped(tok, sufs) ==
    LET k == FirstFit(tok, sufs)
    IN  IF k = 0 THEN tok ELSE SubSeq(tok, 1, Len(tok) - Len(sufs[k]))

\* the strips of stem_ru, one after the other
RuStrips(w) ==
    LET r == Stripped(w, reflexive)
    IN  IF FirstFit(r, adj) # 0 THEN Stripped(Stripped(r, adj), noun)
        ELSE IF FirstFit(r, verb) # 0 THEN Stripped(r, verb)
        ELSE Stripped(r, noun)

\* the places of the suffixes listed after a shorter suffix that is their ending
Shadowed(sufs) ==
    { j \in 1..Len(sufs) :
        \E i \in 1..(j - 1) : Len(sufs[i]) < Len(sufs[j]) /\ EndsIn(sufs[j], sufs[i]) }

C25_StemRuStrips ==
    (pc \in {"stemmed", "restemmed"} /\ stem_lang = "ru") =>
        /\ IsPrefixOf(stem_out, stem_word)
        /\ stem_out # stem_word => Len(stem_out) >= 4
        /\ stem_out = RuStrips(stem_word)
        /\ \A j \in Shadowed(verb) :
              EndsIn(stem_word, verb[j]) =>
                  stem_out # SubSeq(stem_word, 1, Len(stem_word) - Len(verb[j]))

\* рисуют has been stemmed to рису: ют went, not уют
C25_Witness ==
    /\ pc = "stemmed"
    /\ stem_lang = "ru"
    /\ stem_word = <<209, 128, 208, 184, 209, 129, 209, 131, 209, 142, 209, 130>>
    /\ EndsIn(stem_word, verb[26])
    /\ 26 \in Shadowed(verb)
    /\ stem_out = <<209, 128, 208, 184, 209, 129, 209, 131>>

====
